---- MODULE Spec2Model ----
(***************************************************************************)
(* A model of the serde-bigquery literal encoder: the type model           *)
(* (types.rs), the identifier encoder (ser/identifier.rs), the literal     *)
(* encoder and its sequence sub-encoder (ser/serializer.rs), the struct    *)
(* sub-encoder with its field-order normalizer (ser/struct_serializer.rs)  *)
(* and the typed wrapper (ser/typed_serializer.rs).                        *)
(*                                                                         *)
(* The sink is a sequence of tokens, one token per write call.  A value    *)
(* is the script of calls its Serialize implementation makes.              *)
(***************************************************************************)
EXTENDS Integers, Sequences, FiniteSets, TLC

VARIABLES pc, writer, seq, ss, result, elems, cur, pre, events, outcome,
          self, other, matched, merged, key_value, identifier,
          hasher, replay

\* The operands and results of the calls made on the type model and on the
\* identifier encoder alone, the state of the hasher the next HashMap::new()
\* takes, and the outcome of a second encode of the same value.
pure == <<self, other, matched, merged, key_value, identifier, hasher, replay>>

vars == <<pc, writer, seq, ss, result, elems, cur, pre, events, outcome,
          self, other, matched, merged, key_value, identifier,
          hasher, replay>>

----------------------------------------------------------------------------
\* Bounds of the model.

\* Elements given to the top-level array in one run.
MaxElems == 2

\* Member events streamed into struct aggregates in one run.
MaxMembers == 2

----------------------------------------------------------------------------
\* Option<T>: None or Some(x).

None == <<>>

Some(x) == <<x>>

----------------------------------------------------------------------------
\* types.rs: Type and Field.

TAny == [k |-> "Any", fields |-> <<>>, elem |-> <<>>]

TBool == [k |-> "Bool", fields |-> <<>>, elem |-> <<>>]

TNumber == [k |-> "Number", fields |-> <<>>, elem |-> <<>>]

TString == [k |-> "String", fields |-> <<>>, elem |-> <<>>]

TBytes == [k |-> "Bytes", fields |-> <<>>, elem |-> <<>>]

TStruct(fs) == [k |-> "Struct", fields |-> fs, elem |-> <<>>]

TArray(t) == [k |-> "Array", fields |-> <<>>, elem |-> <<t>>]

any_array == TArray(TAny)

with_type_and_name(field_type, field_name) ==
    [field_type |-> field_type, field_name |-> field_name]

with_name(field_name) == with_type_and_name(TAny, field_name)

Primitive == {"Bool", "Number", "String", "Bytes"}

RECURSIVE matches(_, _)
\* A matches in which only the receiver may be Any.
matches_any_left(a, b) ==
    IF a.k = "Any" THEN TRUE
    ELSE IF a.k \in Primitive /\ b.k = a.k THEN TRUE
    ELSE IF a.k = "Struct" /\ b.k = "Struct"
      THEN /\ Len(a.fields) = Len(b.fields)
           /\ \A i \in 1..Len(a.fields) :
                 matches(a.fields[i].field_type, b.fields[i].field_type)
    ELSE IF a.k = "Array" /\ b.k = "Array" THEN matches(a.elem[1], b.elem[1])
    ELSE FALSE

\* A matches that compares the names of struct fields as well.
matches_named(a, b) ==
    IF a.k = "Any" THEN TRUE
    ELSE IF b.k = "Any" THEN TRUE
    ELSE IF a.k \in Primitive /\ b.k = a.k THEN TRUE
    ELSE IF a.k = "Struct" /\ b.k = "Struct"
      THEN /\ Len(a.fields) = Len(b.fields)
           /\ \A i \in 1..Len(a.fields) :
                 /\ a.fields[i].field_name = b.fields[i].field_name
                 /\ matches(a.fields[i].field_type, b.fields[i].field_type)
    ELSE IF a.k = "Array" /\ b.k = "Array" THEN matches(a.elem[1], b.elem[1])
    ELSE FALSE

matches(a, b) ==
    IF a.k = "Any" THEN TRUE
    ELSE IF b.k = "Any" THEN TRUE
    ELSE IF a.k \in Primitive /\ b.k = a.k THEN TRUE
    ELSE IF a.k = "Struct" /\ b.k = "Struct"
      THEN /\ Len(a.fields) = Len(b.fields)
           /\ \A i \in 1..Len(a.fields) :
                 matches(a.fields[i].field_type, b.fields[i].field_type)
    ELSE IF a.k = "Array" /\ b.k = "Array" THEN matches(a.elem[1], b.elem[1])
    ELSE FALSE

RECURSIVE merge(_, _)

\* A Field::merge that prefers the name of the second operand.
Field_merge_second(f1, f2) ==
    LET m == merge(f1.field_type, f2.field_type)
    IN  IF m = None THEN None
        ELSE Some([field_type |-> m[1],
                   field_name |-> IF f2.field_name # None THEN f2.field_name
                                  ELSE f1.field_name])

Field_merge(f1, f2) ==
    LET m == merge(f1.field_type, f2.field_type)
    IN  IF m = None THEN None
        ELSE Some([field_type |-> m[1],
                   field_name |-> IF f1.field_name # None THEN f1.field_name
                                  ELSE f2.field_name])

\* A merge that is defined for Any and the primitive types only.
merge_primitives_only(a, b) ==
    IF a.k = "Any" THEN Some(b)
    ELSE IF b.k = "Any" THEN Some(a)
    ELSE IF a.k \in Primitive /\ b.k = a.k THEN Some(a)
    ELSE None

\* A merge in which only the receiver may be Any.
merge_any_left(a, b) ==
    IF a.k = "Any" THEN Some(b)
    ELSE IF a.k \in Primitive /\ b.k = a.k THEN Some(a)
    ELSE IF a.k = "Struct" /\ b.k = "Struct"
      THEN IF Len(a.fields) = Len(b.fields)
             THEN LET ms == [i \in 1..Len(a.fields) |->
                               Field_merge(a.fields[i], b.fields[i])]
                  IN  IF \A i \in 1..Len(a.fields) : ms[i] # None
                        THEN Some(TStruct([i \in 1..Len(a.fields) |-> ms[i][1]]))
                        ELSE None
             ELSE None
    ELSE IF a.k = "Array" /\ b.k = "Array"
      THEN LET m == merge(a.elem[1], b.elem[1])
           IN  IF m = None THEN None ELSE Some(TArray(m[1]))
    ELSE None

merge(a, b) ==
    IF a.k = "Any" THEN Some(b)
    ELSE IF b.k = "Any" THEN Some(a)
    ELSE IF a.k \in Primitive /\ b.k = a.k THEN Some(a)
    ELSE IF a.k = "Struct" /\ b.k = "Struct"
      THEN IF Len(a.fields) = Len(b.fields)
             THEN LET ms == [i \in 1..Len(a.fields) |->
                               Field_merge(a.fields[i], b.fields[i])]
                  IN  IF \A i \in 1..Len(a.fields) : ms[i] # None
                        THEN Some(TStruct([i \in 1..Len(a.fields) |-> ms[i][1]]))
                        ELSE None
             ELSE None
    ELSE IF a.k = "Array" /\ b.k = "Array"
      THEN LET m == merge(a.elem[1], b.elem[1])
           IN  IF m = None THEN None ELSE Some(TArray(m[1]))
    ELSE None

----------------------------------------------------------------------------
\* error.rs: Error, and the Result<Type> of an encode call together with the
\* sink as the call leaves it.

NoError == [e |-> "none"]

EmptyStruct == [e |-> "EmptyStruct"]

UnsupportedType == [e |-> "UnsupportedType"]

UnexpectedType(expected, found) ==
    [e |-> "UnexpectedType", expected |-> expected, found |-> found]

UnexpectedStructField(field) == [e |-> "UnexpectedStructField", field |-> field]

DuplicateStructField(name) == [e |-> "DuplicateStructField", name |-> name]

InvalidIdentifierType(t) == [e |-> "InvalidIdentifierType", type |-> t]

Ok(t, w) == [ok |-> TRUE, type |-> t, err |-> NoError, w |-> w]

Err(e, w) == [ok |-> FALSE, type |-> TAny, err |-> e, w |-> w]

\* The Result<Type> alone.
Returned(r) == [ok |-> r.ok, type |-> r.type, err |-> r.err]

\* A check_type that reports the two types the wrong way round.
check_type_swapped(r, expected) ==
    IF r.ok
      THEN IF matches(expected, r.type) THEN r
           ELSE Err(UnexpectedType(r.type, expected), r.w)
      ELSE r

check_type(r, expected) ==
    IF r.ok
      THEN IF matches(expected, r.type) THEN r
           ELSE Err(UnexpectedType(expected, r.type), r.w)
      ELSE r

----------------------------------------------------------------------------
\* Values: the calls a value's Serialize implementation makes.

VBool(b) == [k |-> "bool", b |-> b]

VInt(n) == [k |-> "i64", n |-> n]

VStr(s) == [k |-> "str", s |-> s]

VNone == [k |-> "none"]

VSome(v) == [k |-> "some", inner |-> v]

VSeq(es) == [k |-> "seq", elems |-> es]

\* An integer of the given width: "i8", "i16", "i32", "i64", "u8", "u16",
\* "u32" or "u64".
VNum(width, n) == [k |-> width, n |-> n]

\* A float of the given width, "f32" or "f64".  The floats of the model are
\* the multiples of 1/4, which both widths hold exactly: q is the number of
\* quarters.
VFloat(width, q) == [k |-> width, q |-> q]

VChar(c) == [k |-> "char", c |-> c]

\* A byte sequence: bytes are numbers in 0..255.
VBytes(bs) == [k |-> "bytes", bytes |-> bs]

VUnit == [k |-> "unit"]

VUnitStruct(name) == [k |-> "unit_struct", name |-> name]

VUnitVariant(variant) == [k |-> "unit_variant", variant |-> variant]

VNewtypeStruct(v) == [k |-> "newtype_struct", inner |-> v]

VNewtypeVariant(v) == [k |-> "newtype_variant", inner |-> v]

VTupleVariant(len) == [k |-> "tuple_variant", len |-> len]

VStructVariant(len) == [k |-> "struct_variant", len |-> len]

\* A member of an aggregate: the key value (NoKey for a tuple element) and
\* the member value.
NoKey == [k |-> "nokey"]

Member(key, val) == [key |-> key, val |-> val]

\* The value of a member whose key was rejected: none was supplied.
NoValue == [k |-> "novalue"]

\* kind is "map", "struct" or "tuple"; len is the length declared up front.
VAggregate(kind, len, mem) == [k |-> kind, len |-> len, mem |-> mem]

VMap(mem) == VAggregate("map", Len(mem), mem)

VStruct(mem) == VAggregate("struct", Len(mem), mem)

VTuple(vals) == VAggregate("tuple", Len(vals), [i \in 1..Len(vals) |-> Member(NoKey, vals[i])])

AggregateKinds == {"map", "struct", "tuple"}

----------------------------------------------------------------------------
\* ser/identifier.rs

\* The grave accent that quotes an identifier; a TLA+ string cannot hold that
\* character, so the model writes it as an apostrophe.
Backquote == "'"

format_as_identifier(s) == Backquote \o s \o Backquote

\* Result<String>: [ok, id, err].
IdentifierOk(id) == [ok |-> TRUE, id |-> id, err |-> NoError]

IdentifierErr(t) == [ok |-> FALSE, id |-> "", err |-> InvalidIdentifierType(t)]

\* std::str::from_utf8.  The byte sequences of the model hold the ASCII
\* letters a (0x61) and b (0x62) and the byte 0xFF, which occurs in no UTF-8
\* text: Option<&str>.
Utf8Char(b) == IF b = 97 THEN "a" ELSE "b"

RECURSIVE Utf8Text(_)
Utf8Text(bs) == IF bs = <<>> THEN "" ELSE Utf8Char(Head(bs)) \o Utf8Text(Tail(bs))

from_utf8(bs) ==
    IF \A i \in 1..Len(bs) : bs[i] < 128 THEN Some(Utf8Text(bs)) ELSE None

IntegerKinds == {"i8", "i16", "i32", "i64", "u8", "u16", "u32", "u64"}

FloatKinds == {"f32", "f64"}

\* An identifier encoder that takes a numeric key as its decimal text.
IdentifierSerializer_serialize_number_as_text(n) == IdentifierOk(ToString(n))

\* IdentifierSerializer::serialize_i8 .. serialize_u64
IdentifierSerializer_serialize_number(n) == IdentifierErr(TNumber)

\* IdentifierSerializer::serialize_bytes
IdentifierSerializer_serialize_bytes(v) ==
    IF from_utf8(v) # None THEN IdentifierOk(from_utf8(v)[1])
    ELSE IdentifierErr(TBytes)

\* to_identifier: value.serialize(&mut IdentifierSerializer)
RECURSIVE to_identifier(_)
to_identifier(key) ==
    IF key.k = "str" THEN IdentifierOk(key.s)
    ELSE IF key.k = "none" THEN IdentifierOk("")
    ELSE IF key.k = "bool" THEN IdentifierErr(TBool)
    ELSE IF key.k \in IntegerKinds THEN IdentifierSerializer_serialize_number(key.n)
    ELSE IF key.k \in FloatKinds THEN IdentifierErr(TNumber)
    ELSE IF key.k = "seq" THEN IdentifierErr(any_array)
    ELSE IF key.k = "char" THEN IdentifierOk(key.c)
    ELSE IF key.k = "bytes" THEN IdentifierSerializer_serialize_bytes(key.bytes)
    ELSE IF key.k = "unit" THEN IdentifierOk("")
    ELSE IF key.k = "unit_struct" THEN IdentifierOk(key.name)
    ELSE IF key.k = "unit_variant" THEN IdentifierOk(key.variant)
    ELSE IF key.k \in {"some", "newtype_struct", "newtype_variant"}
      THEN to_identifier(key.inner)
    ELSE IdentifierErr(TStruct(<<>>))

----------------------------------------------------------------------------
\* ser/struct_serializer.rs: StructSerializer and FieldsBuffer.

RECURSIVE Serializer_serialize(_, _)

\* The outcome of a step of an aggregate sub-encoder: the sub-encoder and the
\* sink as the step leaves them.
StepOk(s, w) == [ok |-> TRUE, ss |-> s, w |-> w, err |-> NoError]

StepErr(e, s, w) == [ok |-> FALSE, ss |-> s, w |-> w, err |-> e]

\* HashMap<Field, Vec<u8>>
EmptyMap == [f \in {} |-> <<>>]

Insert(m, key, val) ==
    [f \in DOMAIN m \cup {key} |-> IF f = key THEN val ELSE m[f]]

Remove(m, key) == [f \in DOMAIN m \ {key} |-> m[f]]

FieldsBuffer_with_expected_fields(expected_fields) ==
    [expected_fields |-> expected_fields, fields_buffer |-> EmptyMap]

StructSerializer_with_serializer ==
    [fields |-> <<>>, pending_key |-> None, fields_buffer |-> None]

with_expected_fields(s, expected_fields) ==
    [s EXCEPT !.fields_buffer =
                 Some(FieldsBuffer_with_expected_fields(expected_fields))]

\* FieldsBuffer::buffer, from the serialized value r on: Result<()> and the
\* buffer as the call leaves it.
buffer_insert(fb, key, r) ==
    LET field == with_type_and_name(r.type, Some(key))
    IN  IF ~r.ok THEN [ok |-> FALSE, fb |-> fb, err |-> r.err]
        ELSE [ok |-> field \notin DOMAIN fb.fields_buffer,
              fb |-> [fb EXCEPT !.fields_buffer = Insert(@, field, r.w)],
              err |-> IF field \in DOMAIN fb.fields_buffer
                        THEN DuplicateStructField(key) ELSE NoError]

\* A buffer that renders the value after a separator.
buffer_after_separator(fb, key, value) ==
    buffer_insert(fb, key, Serializer_serialize(value, <<",">>))

\* FieldsBuffer::buffer: the value is serialized into a buffer of its own.
buffer(fb, key, value) == buffer_insert(fb, key, Serializer_serialize(value, <<>>))

\* FieldsBuffer::decide, the arm that buffers: b is what buffer returned.
decide_buffered(b) ==
    [ok |-> b.ok, decision |-> "Buffered", fb |-> b.fb, err |-> b.err]

\* A decide that takes a member in position only when its name is the next
\* expected field's name, or neither has a name.
decide_by_name(fb, key, value) ==
    IF fb.expected_fields # <<>>
      THEN IF Head(fb.expected_fields).field_name = key
             THEN [ok |-> TRUE, decision |-> "Expected",
                   fb |-> [fb EXCEPT !.expected_fields = Tail(fb.expected_fields)],
                   err |-> NoError]
           ELSE IF key = None
             THEN [ok |-> FALSE, decision |-> "Expected", fb |-> fb,
                   err |-> UnexpectedStructField(with_name(key))]
           ELSE decide_buffered(buffer(fb, key[1], value))
      ELSE [ok |-> FALSE, decision |-> "Expected", fb |-> fb,
            err |-> UnexpectedStructField(with_name(key))]

\* FieldsBuffer::decide: Result<FieldsBufferDecision> and the buffer as the
\* call leaves it.
decide(fb, key, value) ==
    IF fb.expected_fields # <<>>
      THEN LET head == Head(fb.expected_fields)
               tail == Tail(fb.expected_fields)
           IN  IF head.field_name = None \/ key = None
                 THEN [ok |-> TRUE, decision |-> "Expected",
                       fb |-> [fb EXCEPT !.expected_fields = tail],
                       err |-> NoError]
               ELSE IF head.field_name[1] = key[1]
                 THEN [ok |-> TRUE, decision |-> "Expected",
                       fb |-> [fb EXCEPT !.expected_fields = tail],
                       err |-> NoError]
               ELSE decide_buffered(buffer(fb, key[1], value))
      ELSE [ok |-> FALSE, decision |-> "Expected", fb |-> fb,
            err |-> UnexpectedStructField(with_name(key))]

\* The states of the hasher a HashMap::new() can take (RandomState::new()).
Hashers == {0, 1}

\* The keys of the map m, each once, in an order of their own.
HashMap_keys(m) ==
    CHOOSE s \in [1..Cardinality(DOMAIN m) -> DOMAIN m] :
        \A f \in DOMAIN m : \E i \in DOMAIN s : s[i] = f

\* HashMap::iter: the keys of m in the order the hasher gives them.
HashMap_iter(m) ==
    [i \in 1..Cardinality(DOMAIN m) |->
        HashMap_keys(m)[IF hasher = 0 THEN i ELSE Cardinality(DOMAIN m) + 1 - i]]

\* The entries of the map m under the keys ks.
drain_entries(ks, m) ==
    [i \in 1..Len(ks) |-> [field |-> ks[i], serialized |-> m[ks[i]]]]

\* The expected fields fs that the map m has no entry for, as NULL.
RECURSIVE drain_missing(_, _)
drain_missing(fs, m) ==
    IF fs = <<>> THEN <<>>
    ELSE IF Head(fs) \in DOMAIN m THEN drain_missing(Tail(fs), m)
    ELSE <<[field |-> Head(fs), serialized |-> <<"NULL">>]>>
         \o drain_missing(Tail(fs), m)

\* A drain that walks the buffer map and not the expected fields.
drain_in_map_order(expected_fields, fields_buffer) ==
    drain_entries(HashMap_iter(fields_buffer), fields_buffer)
        \o drain_missing(expected_fields, fields_buffer)

\* FieldsBuffer::drain: the (field, serialized) pairs, in iteration order.
RECURSIVE drain_from(_, _)
\* A drain that yields only the expected fields a member was buffered for.
drain_supplied(expected_fields, fields_buffer) ==
    IF expected_fields = <<>> THEN <<>>
    ELSE LET field == Head(expected_fields)
         IN  IF field \in DOMAIN fields_buffer
               THEN <<[field |-> field, serialized |-> fields_buffer[field]]>>
                    \o drain_from(Tail(expected_fields),
                                  Remove(fields_buffer, field))
               ELSE drain_from(Tail(expected_fields), fields_buffer)

drain_from(expected_fields, fields_buffer) ==
    IF expected_fields = <<>> THEN <<>>
    ELSE LET field == Head(expected_fields)
         IN  IF field \in DOMAIN fields_buffer
               THEN <<[field |-> field, serialized |-> fields_buffer[field]]>>
                    \o drain_from(Tail(expected_fields),
                                  Remove(fields_buffer, field))
               ELSE <<[field |-> field, serialized |-> <<"NULL">>]>>
                    \o drain_from(Tail(expected_fields), fields_buffer)

drain(fb) == drain_from(fb.expected_fields, fb.fields_buffer)

\* A suffix written for every key that is present, the empty one too.
as_suffix_of_any_key(w, key) ==
    IF key # None
      THEN Append(w, " AS " \o format_as_identifier(key[1]))
      ELSE w

\* The " AS `key`" suffix of a member: written iff the key is present and
\* not empty.
as_suffix(w, key) ==
    IF key # None /\ key[1] # ""
      THEN Append(w, " AS " \o format_as_identifier(key[1]))
      ELSE w

\* StructSerializer::serialize_field, from the serialized value r on: the
\* member is recorded and its name written.
serialize_field_written(s, key, r) ==
    IF ~r.ok THEN StepErr(r.err, s, r.w)
    ELSE StepOk([s EXCEPT !.fields = Append(@, with_type_and_name(r.type, key))],
                as_suffix(r.w, key))

\* StructSerializer::serialize_field, from the decision d on.
serialize_field_decided(s, w, key, value, d) ==
    LET s1 == IF s.fields_buffer # None
                THEN [s EXCEPT !.fields_buffer = Some(d.fb)] ELSE s
    IN  IF ~d.ok THEN StepErr(d.err, s1, w)
        ELSE IF d.decision = "Expected"
          THEN serialize_field_written(
                   s1, key,
                   Serializer_serialize(
                       value, IF s1.fields # <<>> THEN Append(w, ",") ELSE w))
        ELSE StepOk(s1, w)

\* StructSerializer::serialize_field(key: Option<&str>, value)
serialize_field(s, w, key, value) ==
    serialize_field_decided(
        s, w, key, value,
        IF s.fields_buffer # None
          THEN decide(s.fields_buffer[1], key, value)
          ELSE [ok |-> TRUE, decision |-> "Expected", fb |-> None,
                err |-> NoError])

\* The loop of serialize_struct_end over the drained pairs.
RECURSIVE write_drained(_, _, _)
write_drained(fields, w, drained) ==
    IF drained = <<>> THEN [fields |-> fields, w |-> w]
    ELSE LET d == Head(drained)
             w1 == IF fields # <<>> THEN Append(w, ",") ELSE w
             w2 == w1 \o d.serialized
         IN  write_drained(Append(fields, d.field),
                           as_suffix(w2, d.field.field_name), Tail(drained))

\* A close that does not look at the number of members written.
serialize_struct_close_unchecked(f) ==
    Ok(TStruct(f.fields), Append(f.w, ")"))

\* StructSerializer::serialize_struct_end, from the drained members on.
serialize_struct_close(f) ==
    IF f.fields = <<>> THEN Err(EmptyStruct, f.w)
    ELSE Ok(TStruct(f.fields), Append(f.w, ")"))

\* StructSerializer::serialize_struct_end
serialize_struct_end(s, w) ==
    serialize_struct_close(
        IF s.fields_buffer # None
          THEN write_drained(s.fields, w, drain(s.fields_buffer[1]))
          ELSE [fields |-> s.fields, w |-> w])

\* SerializeTuple::serialize_element, SerializeTupleStruct::serialize_field
SerializeTuple_serialize_element(s, w, value) ==
    serialize_field(s, w, None, value)

\* SerializeStruct::serialize_field(key: &'static str, value)
SerializeStruct_serialize_field(s, w, key, value) ==
    serialize_field(s, w, Some(key), value)

\* SerializeMap::serialize_key; panics (assert!) when a key is pending.
SerializeMap_serialize_key_panics(s) == s.pending_key # None

SerializeMap_serialize_key(s, w, key) ==
    LET id == to_identifier(key)
    IN  IF id.ok THEN StepOk([s EXCEPT !.pending_key = Some(id.id)], w)
        ELSE StepErr(id.err, s, w)

\* SerializeMap::serialize_value
SerializeMap_serialize_value(s, w, value) ==
    serialize_field([s EXCEPT !.pending_key = None], w, s.pending_key, value)

\* SerializeMap::serialize_entry
SerializeMap_serialize_entry(s, w, key, value) ==
    LET id == to_identifier(key)
    IN  IF id.ok THEN serialize_field(s, w, Some(id.id), value)
        ELSE StepErr(id.err, s, w)

\* One member of an aggregate value of the given kind, as its Serialize
\* implementation supplies it.
serialize_member(kind, s, w, m) ==
    IF kind = "tuple" THEN SerializeTuple_serialize_element(s, w, m.val)
    ELSE IF kind = "struct"
      THEN SerializeStruct_serialize_field(s, w, m.key.s, m.val)
    ELSE SerializeMap_serialize_entry(s, w, m.key, m.val)

RECURSIVE serialize_members(_, _, _, _)

\* The members after one whose step returned r.
serialize_members_after(kind, r, mem) ==
    IF r.ok THEN serialize_members(kind, r.ss, r.w, mem) ELSE r

\* The members of an aggregate value, in the order its Serialize
\* implementation supplies them.
serialize_members(kind, s, w, mem) ==
    IF mem = <<>> THEN StepOk(s, w)
    ELSE serialize_members_after(kind, serialize_member(kind, s, w, Head(mem)),
                                 Tail(mem))

----------------------------------------------------------------------------
\* ser/serializer.rs: Serializer and SeqSerializer.

serialize_bool(v, w) == Ok(TBool, Append(w, IF v THEN "TRUE" ELSE "FALSE"))

serialize_i64(v, w) == Ok(TNumber, Append(w, ToString(v)))

serialize_i8(v, w) == serialize_i64(v, w)

serialize_i16(v, w) == serialize_i64(v, w)

serialize_i32(v, w) == serialize_i64(v, w)

serialize_u64(v, w) == Ok(TNumber, Append(w, ToString(v)))

serialize_u8(v, w) == serialize_u64(v, w)

serialize_u16(v, w) == serialize_u64(v, w)

serialize_u32(v, w) == serialize_u64(v, w)

\* f64::to_string of q quarters: the integer part, then the fraction without
\* trailing zeros, and no fraction at all for a whole number.
f64_to_string(q) ==
    LET n == IF q < 0 THEN -q ELSE q
        frac == <<"", ".25", ".5", ".75">>[(n % 4) + 1]
    IN  (IF q < 0 THEN "-" ELSE "") \o ToString(n \div 4) \o frac

serialize_f64(v, w) == Ok(TNumber, Append(w, f64_to_string(v)))

serialize_f32(v, w) == serialize_f64(v, w)

serialize_str(v, w) == Ok(TString, Append(w, "\"" \o v \o "\""))

serialize_char(v, w) == serialize_str(v, w)

\* format!("\\x{:02x}", b)
HexDigits == <<"0", "1", "2", "3", "4", "5", "6", "7",
               "8", "9", "a", "b", "c", "d", "e", "f">>

format_byte(b) == "\\x" \o HexDigits[(b \div 16) + 1] \o HexDigits[(b % 16) + 1]

RECURSIVE String_from_iter(_)
String_from_iter(bs) ==
    IF bs = <<>> THEN "" ELSE format_byte(Head(bs)) \o String_from_iter(Tail(bs))

serialize_bytes(v, w) ==
    Ok(TBytes, Append(Append(Append(w, "b\""), String_from_iter(v)), "\""))

\* A NULL that has the type of a string.
serialize_none_as_string(w) == Ok(TString, Append(w, "NULL"))

serialize_none(w) == Ok(TAny, Append(w, "NULL"))

serialize_unit(w) == serialize_none(w)

serialize_unit_struct(w) == serialize_unit(w)

\* A unit variant encoded as the unit value is.
serialize_unit_variant_as_unit(variant, w) == serialize_unit(w)

serialize_unit_variant(variant, w) == serialize_str(variant, w)

\* A newtype variant encoded as the value it wraps, as a newtype struct is.
serialize_newtype_variant_delegating(value, w) == Serializer_serialize(value, w)

serialize_newtype_variant(value, w) == Err(UnsupportedType, w)

serialize_tuple_variant(w) == Err(UnsupportedType, w)

serialize_struct_variant(w) == Err(UnsupportedType, w)

\* The outcome of a begin call: the sub-encoder it returns and the sink.
serialize_seq(w) == Append(w, "[")

serialize_tuple(len, w) ==
    IF len > 0 THEN StepOk(StructSerializer_with_serializer, Append(w, "STRUCT("))
    ELSE StepErr(EmptyStruct, StructSerializer_with_serializer, w)

serialize_map(w) == StepOk(StructSerializer_with_serializer, Append(w, "STRUCT("))

serialize_struct(len, w) == serialize_tuple(len, w)

\* serialize_tuple, serialize_struct or serialize_map, by the aggregate's kind.
Serializer_begin(kind, len, w) ==
    IF kind = "map" THEN serialize_map(w)
    ELSE IF kind = "struct" THEN serialize_struct(len, w)
    ELSE serialize_tuple(len, w)

SeqSerializer_with_serializer == [has_elements |-> FALSE, element_type |-> TAny]

\* SeqSerializer::with_element_type, called by TypedSerializer::serialize_seq:
\* the nested array's running element type starts at the expected one.
with_element_type(sq, element_type) == [sq EXCEPT !.element_type = element_type]

\* A separator written before every element, the first one too.
SeqSerializer_separator_always(sq, w) ==
    [seq |-> [sq EXCEPT !.has_elements = TRUE], w |-> Append(w, ",")]

\* SeqSerializer::serialize_element, the separator.
SeqSerializer_separator(sq, w) ==
    IF sq.has_elements THEN [seq |-> sq, w |-> Append(w, ",")]
    ELSE [seq |-> [sq EXCEPT !.has_elements = TRUE], w |-> w]

\* A fold that takes the type of the element as the running element type.
SeqSerializer_fold_replacing(sq, r) ==
    IF ~r.ok
      THEN [ok |-> FALSE, seq |-> sq, w |-> r.w, err |-> r.err,
            outcome |-> Returned(r)]
    ELSE IF merge(sq.element_type, r.type) # None
      THEN [ok |-> TRUE, seq |-> [sq EXCEPT !.element_type = r.type],
            w |-> r.w, err |-> NoError, outcome |-> Returned(r)]
    ELSE [ok |-> FALSE, seq |-> sq, w |-> r.w,
          err |-> UnexpectedType(sq.element_type, r.type),
          outcome |-> Returned(r)]

\* A fold that checks the element's type against the running element type
\* and leaves the running element type as it was.
SeqSerializer_fold_unmerged(sq, r) ==
    IF ~r.ok
      THEN [ok |-> FALSE, seq |-> sq, w |-> r.w, err |-> r.err,
            outcome |-> Returned(r)]
    ELSE IF merge(sq.element_type, r.type) # None
      THEN [ok |-> TRUE, seq |-> sq, w |-> r.w, err |-> NoError,
            outcome |-> Returned(r)]
    ELSE [ok |-> FALSE, seq |-> sq, w |-> r.w,
          err |-> UnexpectedType(sq.element_type, r.type),
          outcome |-> Returned(r)]

\* SeqSerializer::serialize_element, from the element's Result<Type> r on:
\* its type is folded into the running element type.  outcome is r alone.
SeqSerializer_fold(sq, r) ==
    LET new_element_type == merge(sq.element_type, r.type)
    IN  IF ~r.ok
          THEN [ok |-> FALSE, seq |-> sq, w |-> r.w, err |-> r.err,
                outcome |-> Returned(r)]
        ELSE IF new_element_type # None
          THEN [ok |-> TRUE, seq |-> [sq EXCEPT !.element_type = new_element_type[1]],
                w |-> r.w, err |-> NoError, outcome |-> Returned(r)]
        ELSE [ok |-> FALSE, seq |-> sq, w |-> r.w,
              err |-> UnexpectedType(sq.element_type, r.type),
              outcome |-> Returned(r)]

SeqSerializer_end(sq, w) == Ok(TArray(sq.element_type), Append(w, "]"))

----------------------------------------------------------------------------
\* ser/typed_serializer.rs: TypedSerializer.

\* A begin that goes on whatever the expected type is.
TypedSerializer_begin_unchecked(kind, len, expected_type, w) ==
    IF expected_type.k = "Struct"
      THEN LET b == Serializer_begin(kind, len, w)
           IN  IF b.ok THEN StepOk(with_expected_fields(b.ss, expected_type.fields), b.w)
               ELSE b
    ELSE Serializer_begin(kind, len, w)

\* serialize_tuple, serialize_tuple_struct, serialize_map, serialize_struct
TypedSerializer_begin(kind, len, expected_type, w) ==
    IF expected_type.k = "Any" THEN Serializer_begin(kind, len, w)
    ELSE IF expected_type.k = "Struct"
      THEN LET b == Serializer_begin(kind, len, w)
           IN  IF b.ok THEN StepOk(with_expected_fields(b.ss, expected_type.fields), b.w)
               ELSE b
    ELSE StepErr(UnexpectedType(expected_type, TStruct(<<>>)),
                 StructSerializer_with_serializer, w)

\* serialize_seq: Result<SeqSerializer> and the sink.
TypedSerializer_serialize_seq(expected_type, w) ==
    IF expected_type.k = "Any"
      THEN [ok |-> TRUE, seq |-> SeqSerializer_with_serializer,
            w |-> serialize_seq(w), err |-> NoError]
    ELSE IF expected_type.k = "Array"
      THEN [ok |-> TRUE,
            seq |-> with_element_type(SeqSerializer_with_serializer,
                                      expected_type.elem[1]),
            w |-> serialize_seq(w), err |-> NoError]
    ELSE [ok |-> FALSE, seq |-> SeqSerializer_with_serializer, w |-> w,
          err |-> UnexpectedType(expected_type, any_array)]

RECURSIVE TypedSerializer_serialize(_, _, _)

\* The encoder SeqSerializer::serialize_element hands the element to: the
\* typed wrapper around the literal encoder, expecting the running element
\* type.
element_serializer(sq, w, value) ==
    TypedSerializer_serialize(value, sq.element_type, w)

\* SeqSerializer::serialize_element
SeqSerializer_serialize_element(sq, w, value) ==
    LET b == SeqSerializer_separator(sq, w)
    IN  SeqSerializer_fold(b.seq, element_serializer(b.seq, b.w, value))

RECURSIVE serialize_elements(_, _, _)

\* The elements after one whose step returned r, encoded whether that step
\* failed or not.
serialize_elements_skipping(r, es) == serialize_elements(r.seq, r.w, es)

\* The elements after one whose step returned r.
serialize_elements_after(r, es) ==
    IF r.ok THEN serialize_elements(r.seq, r.w, es) ELSE r

\* The elements of a sequence value, in order.
serialize_elements(sq, w, es) ==
    IF es = <<>> THEN [ok |-> TRUE, seq |-> sq, w |-> w, err |-> NoError,
                       outcome |-> Returned(Ok(TAny, w))]
    ELSE serialize_elements_after(
             SeqSerializer_serialize_element(sq, w, Head(es)), Tail(es))

\* The end call of an aggregate value after its members, whose steps
\* returned r.
serialize_aggregate_end(r) ==
    IF r.ok THEN serialize_struct_end(r.ss, r.w) ELSE Err(r.err, r.w)

\* An aggregate value driven through the sub-encoder a begin call returned.
serialize_aggregate(b, v) ==
    IF ~b.ok THEN Err(b.err, b.w)
    ELSE serialize_aggregate_end(serialize_members(v.k, b.ss, b.w, v.mem))

\* The end call of a sequence value after its elements, whose steps
\* returned r.
serialize_sequence_end(r) ==
    IF r.ok THEN SeqSerializer_end(r.seq, r.w) ELSE Err(r.err, r.w)

\* A sequence value driven through the sub-encoder a begin call returned.
serialize_sequence(b, v) ==
    IF ~b.ok THEN Err(b.err, b.w)
    ELSE serialize_sequence_end(serialize_elements(b.seq, b.w, v.elems))

\* value.serialize(&mut Serializer): impl ser::Serializer for &mut Serializer<W>
Serializer_serialize(v, w) ==
    IF v.k = "bool" THEN serialize_bool(v.b, w)
    ELSE IF v.k = "i64" THEN serialize_i64(v.n, w)
    ELSE IF v.k = "str" THEN serialize_str(v.s, w)
    ELSE IF v.k = "none" THEN serialize_none(w)
    ELSE IF v.k = "some" THEN Serializer_serialize(v.inner, w)
    ELSE IF v.k = "i8" THEN serialize_i8(v.n, w)
    ELSE IF v.k = "i16" THEN serialize_i16(v.n, w)
    ELSE IF v.k = "i32" THEN serialize_i32(v.n, w)
    ELSE IF v.k = "u8" THEN serialize_u8(v.n, w)
    ELSE IF v.k = "u16" THEN serialize_u16(v.n, w)
    ELSE IF v.k = "u32" THEN serialize_u32(v.n, w)
    ELSE IF v.k = "u64" THEN serialize_u64(v.n, w)
    ELSE IF v.k = "f32" THEN serialize_f32(v.q, w)
    ELSE IF v.k = "f64" THEN serialize_f64(v.q, w)
    ELSE IF v.k = "char" THEN serialize_char(v.c, w)
    ELSE IF v.k = "bytes" THEN serialize_bytes(v.bytes, w)
    ELSE IF v.k = "unit" THEN serialize_unit(w)
    ELSE IF v.k = "unit_struct" THEN serialize_unit_struct(w)
    ELSE IF v.k = "unit_variant" THEN serialize_unit_variant(v.variant, w)
    ELSE IF v.k = "newtype_struct" THEN Serializer_serialize(v.inner, w)
    ELSE IF v.k = "newtype_variant" THEN serialize_newtype_variant(v.inner, w)
    ELSE IF v.k = "tuple_variant" THEN serialize_tuple_variant(w)
    ELSE IF v.k = "struct_variant" THEN serialize_struct_variant(w)
    ELSE IF v.k = "seq"
      THEN serialize_sequence([ok |-> TRUE, seq |-> SeqSerializer_with_serializer,
                               w |-> serialize_seq(w), err |-> NoError], v)
    ELSE serialize_aggregate(Serializer_begin(v.k, v.len, w), v)

\* value.serialize(&mut TypedSerializer):
\* impl ser::Serializer for &mut TypedSerializer<W>
TypedSerializer_serialize(v, expected_type, w) ==
    IF v.k \in {"tuple_variant", "struct_variant"} THEN Serializer_serialize(v, w)
    ELSE IF v.k \notin AggregateKinds \cup {"seq"}
      THEN check_type(Serializer_serialize(v, w), expected_type)
    ELSE IF v.k = "seq"
      THEN serialize_sequence(TypedSerializer_serialize_seq(expected_type, w), v)
    ELSE serialize_aggregate(TypedSerializer_begin(v.k, v.len, expected_type, w), v)

\* to_bytes: Result<Vec<u8>>
to_bytes(v) == Serializer_serialize(v, <<>>)

\* to_bytes, what the caller gets from the Result<Type> r of the encode:
\* the bytes of the sink, or the error and no bytes.
to_bytes_returned(r) == IF r.ok THEN Some(r.w) ELSE None

\* The sink's text: its tokens concatenated.
RECURSIVE Text(_)
Text(w) == IF w = <<>> THEN "" ELSE Head(w) \o Text(Tail(w))

----------------------------------------------------------------------------
\* The inputs of the model.

Key(name) == VStr(name)

\* Values a driver streams into a struct member by member.
MemberValues == {VInt(1), VNone}

\* Field names of SerializeStruct::serialize_field.
Names == {"a", "b"}

\* Key values of SerializeMap::serialize_key and serialize_entry.
KeyValues == {Key("a"), Key("b"), VInt(7), VUnit}

\* The begin calls of a streamed aggregate: its kind and the length declared
\* up front (serialize_map ignores its length).
Begins == {<<"map", 0>>, <<"struct", 0>>, <<"struct", 1>>, <<"tuple", 1>>}

Scalars == {VInt(1), VStr("boom"), VNone}

Structs ==
    { VMap(<<Member(Key("a"), VBool(FALSE)), Member(Key("b"), VInt(1))>>),
      VMap(<<Member(Key("b"), VInt(2)), Member(Key("a"), VBool(TRUE))>>),
      VMap(<<Member(Key("a"), VInt(1)), Member(Key("b"), VNone)>>),
      VMap(<<Member(Key("a"), VInt(1)), Member(Key("b"), VInt(2)),
             Member(Key("c"), VInt(3))>>),
      VMap(<<Member(Key("c"), VInt(6)), Member(Key("a"), VInt(4)),
             Member(Key("b"), VInt(5))>>) }

\* The tagged variants that have no literal.
Variants == {VNewtypeVariant(VInt(1)), VTupleVariant(1), VStructVariant(1)}

\* Sequences given as elements of an array.
Sequences == {VSeq(<<>>), VSeq(<<VInt(1)>>), VSeq(<<VStr("boom")>>)}

\* Values handed whole to SeqSerializer::serialize_element.
ElemValues ==
    Scalars \cup Structs \cup Variants \cup Sequences
        \cup {VBool(TRUE), VBytes(<<97>>), VUnit}

\* One value per scalar method of the encoder, with the values of the tests.
ScalarValues ==
    {VBool(FALSE), VBool(TRUE), VInt(42), VInt(-3), VStr("foo"), VStr(""),
     VFloat("f32", 5), VFloat("f64", 5), VFloat("f64", -6), VFloat("f64", 8),
     VChar("c"), VBytes(<<>>), VBytes(<<102, 111, 111>>),
     VNone, VUnit, VUnitStruct("U"), VUnitVariant("V"),
     VSome(VInt(1)), VNewtypeStruct(VStr("x")), VNewtypeStruct(VNone)}
    \cup {VNum(width, 42) : width \in IntegerKinds}

\* Arrays with an element inside a present optional or a newtype struct.
WrappedArrays ==
    { VSeq(<<VInt(1), VSome(VInt(2))>>),
      VSeq(<<VInt(1), VNewtypeStruct(VStr("boom"))>>),
      VSeq(<<VSeq(<<VInt(1)>>), VSome(VSeq(<<VInt(2)>>))>>),
      VSeq(<<VMap(<<Member(Key("a"), VInt(1)), Member(Key("b"), VInt(2))>>),
             VSome(VMap(<<Member(Key("a"), VInt(3)), Member(Key("b"), VInt(4))>>))>>),
      VSeq(<<VMap(<<Member(Key("a"), VInt(1)), Member(Key("b"), VInt(2))>>),
             VSome(VMap(<<Member(Key("b"), VInt(3)), Member(Key("a"), VInt(4))>>))>>),
      VSeq(<<VMap(<<Member(Key("a"), VInt(1)), Member(Key("b"), VInt(2))>>),
             VNewtypeStruct(
                 VMap(<<Member(Key("b"), VInt(3)), Member(Key("a"), VInt(4))>>))>>) }

\* Arrays of structs with a field that is a struct of named members.
NestedArrays ==
    { VSeq(<<VMap(<<Member(Key("x"),
                        VMap(<<Member(Key("a"), VInt(1)), Member(Key("b"), VInt(2))>>))>>),
             VMap(<<Member(Key("x"),
                        VMap(<<Member(Key("a"), VInt(3)), Member(Key("b"), VInt(4))>>))>>)>>),
      VSeq(<<VMap(<<Member(Key("x"),
                        VMap(<<Member(Key("a"), VInt(1)), Member(Key("b"), VInt(2))>>))>>),
             VMap(<<Member(Key("x"),
                        VMap(<<Member(Key("b"), VInt(3)), Member(Key("a"), VInt(4))>>))>>)>>) }

\* Values with one part whose encoding fails, inside arrays and structs.
FailingNests ==
    { VSeq(<<VSeq(<<VInt(1), VStr("boom")>>), VInt(3)>>),
      VStruct(<<Member(Key("a"), VSeq(<<VNewtypeVariant(VInt(1))>>)),
                Member(Key("b"), VInt(1))>>),
      VSeq(<<VStruct(<<Member(Key("a"), VMap(<<>>))>>), VNone>>),
      VSeq(<<VMap(<<Member(VInt(7), VInt(1))>>)>>),
      VTuple(<<VInt(1), VMap(<<Member(Key("a"), VTupleVariant(1))>>)>>),
      VSeq(<<VStruct(<<Member(Key("a"), VInt(1)), Member(Key("b"), VInt(2))>>),
             VStruct(<<Member(Key("b"), VSeq(<<VNewtypeVariant(VInt(1))>>)),
                       Member(Key("a"), VInt(3))>>)>>),
      VSome(VSeq(<<VNewtypeStruct(VStructVariant(1))>>)) }

\* Arrays of structs whose second element leaves two members to the buffer,
\* or one to the buffer and one out.
ReorderedArrays ==
    { VSeq(<<VMap(<<Member(Key("a"), VInt(1)), Member(Key("b"), VInt(2)),
                    Member(Key("c"), VInt(3))>>),
             VMap(<<Member(Key("c"), VInt(4)), Member(Key("b"), VInt(5)),
                    Member(Key("a"), VInt(6))>>)>>),
      VSeq(<<VStruct(<<Member(Key("a"), VInt(1)), Member(Key("b"), VInt(2)),
                       Member(Key("c"), VInt(3))>>),
             VStruct(<<Member(Key("c"), VInt(4)), Member(Key("b"), VInt(5)),
                       Member(Key("a"), VNone)>>)>>),
      VSeq(<<VMap(<<Member(Key("a"), VInt(1)), Member(Key("b"), VInt(2))>>),
             VMap(<<Member(Key("b"), VInt(3))>>)>>) }

\* Values handed whole to to_bytes.
TopValues ==
    ElemValues \cup ScalarValues \cup WrappedArrays \cup NestedArrays
        \cup FailingNests \cup
    { VStruct(<<>>), VMap(<<>>), VTuple(<<VInt(1), VInt(2)>>),
      VSeq(<<>>),
      VSeq(<<VInt(1), VInt(2), VInt(3)>>),
      VSeq(<<VInt(1), VStr("boom")>>),
      VSeq(<<VStruct(<<Member(Key("x"), VInt(42))>>),
             VStruct(<<Member(Key("x"), VStr("boom"))>>)>>),
      VSeq(<<VMap(<<Member(Key("a"), VBool(FALSE)), Member(Key("b"), VInt(1))>>),
             VMap(<<Member(Key("a"), VBool(TRUE))>>)>>),
      VSeq(<<VSeq(<<VInt(1)>>), VSeq(<<VNone, VInt(2)>>)>>) }

----------------------------------------------------------------------------
\* The state machine: a driver holding the top-level Serializer, then the
\* SeqSerializer ("seq") or StructSerializer ("struct") it returned, or the
\* StructSerializer of an array element being supplied ("elem").

NoResult == [ok |-> FALSE, type |-> TAny, err |-> NoError]

NoAggregate == VAggregate("none", 0, <<>>)

NoIdentifier == [ok |-> FALSE, id |-> "", err |-> NoError]

\* No second encode yet.
NoReplay == [hasher |-> 0, ran |-> FALSE, w |-> <<>>, result |-> NoResult]

\* No encoder has been used.
EncoderInit ==
    /\ writer = <<>>
    /\ seq = SeqSerializer_with_serializer
    /\ ss = StructSerializer_with_serializer
    /\ result = NoResult
    /\ elems = <<>>
    /\ cur = NoAggregate
    /\ pre = [writer |-> <<>>, seq |-> SeqSerializer_with_serializer]
    /\ events = 0
    /\ outcome = NoResult
    /\ hasher = 0
    /\ replay = NoReplay

Init ==
    /\ pc = "start"
    /\ EncoderInit
    /\ self = TAny
    /\ other = TAny
    /\ matched = None
    /\ merged = None
    /\ key_value = NoKey
    /\ identifier = NoIdentifier

Finish(r) ==
    /\ pc' = IF r.ok THEN "done" ELSE "failed"
    /\ writer' = r.w
    /\ result' = Returned(r)

Fail(e, w) == Finish(Err(e, w))

\* to_bytes(value) of a whole value.
Encode(v) ==
    /\ pc = "start"
    /\ Finish(to_bytes(v))
    /\ cur' = v
    /\ UNCHANGED <<seq, ss, elems, pre, events, outcome>>
    /\ UNCHANGED pure

\* Serializer::serialize_seq
BeginSeq ==
    /\ pc = "start"
    /\ pc' = "seq"
    /\ writer' = serialize_seq(writer)
    /\ seq' = SeqSerializer_with_serializer
    /\ UNCHANGED <<ss, result, elems, cur, pre, events, outcome>>
    /\ UNCHANGED pure

\* Serializer::serialize_map / serialize_struct / serialize_tuple
BeginStruct(kind, len) ==
    /\ pc = "start"
    /\ LET b == Serializer_begin(kind, len, writer)
       IN  IF b.ok
             THEN /\ pc' = "struct"
                  /\ writer' = b.w
                  /\ ss' = b.ss
                  /\ cur' = VAggregate(kind, len, <<>>)
                  /\ UNCHANGED result
             ELSE /\ Fail(b.err, b.w)
                  /\ cur' = VAggregate(kind, len, <<>>)
                  /\ UNCHANGED ss
    /\ UNCHANGED <<seq, elems, pre, events, outcome>>
    /\ UNCHANGED pure

\* An element step of the SeqSerializer the driver holds: r is its outcome.
ElementStep(r) ==
    /\ seq' = r.seq
    /\ outcome' = r.outcome
    /\ IF r.ok
         THEN /\ writer' = r.w
              /\ UNCHANGED <<pc, result>>
         ELSE Fail(r.err, r.w)

\* SeqSerializer::serialize_element(value) of a whole value.
Element(v) ==
    /\ pc = "seq"
    /\ Len(elems) < MaxElems
    /\ ElementStep(SeqSerializer_serialize_element(seq, writer, v))
    /\ elems' = Append(elems, v)
    /\ pre' = [writer |-> writer, seq |-> seq]
    /\ UNCHANGED <<ss, cur, events>>
    /\ UNCHANGED pure

\* SeqSerializer::serialize_element(value) of a struct, tuple or map value,
\* up to the begin call the value makes on the typed wrapper.
ElementBegin(kind, len) ==
    /\ pc = "seq"
    /\ Len(elems) < MaxElems
    /\ events < MaxMembers
    /\ LET s == SeqSerializer_separator(seq, writer)
           b == TypedSerializer_begin(kind, len, s.seq.element_type, s.w)
       IN  /\ seq' = s.seq
           /\ IF b.ok
                THEN /\ pc' = "elem"
                     /\ writer' = b.w
                     /\ ss' = b.ss
                     /\ cur' = VAggregate(kind, len, <<>>)
                     /\ UNCHANGED <<result, elems, outcome>>
                ELSE /\ Fail(b.err, b.w)
                     /\ outcome' = Returned(Err(b.err, b.w))
                     /\ elems' = Append(elems, VAggregate(kind, len, <<>>))
                     /\ UNCHANGED <<ss, cur>>
    /\ pre' = [writer |-> writer, seq |-> seq]
    /\ UNCHANGED events
    /\ UNCHANGED pure

\* The aggregate agg with the member m supplied to it.
Supplied(agg, m) == [agg EXCEPT !.mem = Append(@, m)]

\* The StructSerializer the driver held is consumed or dropped; agg is what
\* the driver supplied to it.
Dropped(agg) ==
    /\ ss' = StructSerializer_with_serializer
    /\ cur' = IF pc = "elem" THEN NoAggregate ELSE agg
    /\ elems' = IF pc = "elem" THEN Append(elems, agg) ELSE elems

\* A member step of the StructSerializer the driver holds: r is its outcome
\* and m the member supplied.
MemberStep(r, m) ==
    /\ events' = events + 1
    /\ IF r.ok
         THEN /\ writer' = r.w
              /\ ss' = r.ss
              /\ cur' = Supplied(cur, m)
              /\ UNCHANGED <<pc, result, elems, outcome>>
         ELSE /\ Fail(r.err, r.w)
              /\ outcome' = IF pc = "elem" THEN Returned(Err(r.err, r.w)) ELSE outcome
              /\ Dropped(Supplied(cur, m))
    /\ UNCHANGED <<seq, pre>>

\* SerializeTuple::serialize_element
TupleElement(v) ==
    /\ pc \in {"elem", "struct"}
    /\ cur.k = "tuple"
    /\ events < MaxMembers
    /\ MemberStep(SerializeTuple_serialize_element(ss, writer, v), Member(NoKey, v))
    /\ UNCHANGED pure

\* SerializeStruct::serialize_field
StructField(name, v) ==
    /\ pc \in {"elem", "struct"}
    /\ cur.k = "struct"
    /\ events < MaxMembers
    /\ MemberStep(SerializeStruct_serialize_field(ss, writer, name, v),
                  Member(Key(name), v))
    /\ UNCHANGED pure

\* SerializeMap::serialize_entry
MapEntry(key, v) ==
    /\ pc \in {"elem", "struct"}
    /\ cur.k = "map"
    /\ events < MaxMembers
    /\ MemberStep(SerializeMap_serialize_entry(ss, writer, key, v), Member(key, v))
    /\ UNCHANGED pure

\* SerializeMap::serialize_key
MapKey(key) ==
    /\ pc \in {"elem", "struct"}
    /\ cur.k = "map"
    /\ events < MaxMembers
    /\ IF SerializeMap_serialize_key_panics(ss)
         THEN /\ pc' = "aborted"
              /\ Dropped(cur)
              /\ UNCHANGED <<writer, result, outcome>>
         ELSE LET r == SerializeMap_serialize_key(ss, writer, key)
              IN  IF r.ok
                    THEN /\ ss' = r.ss
                         /\ UNCHANGED <<pc, writer, result, elems, cur, outcome>>
                    ELSE /\ Fail(r.err, r.w)
                         /\ outcome' = IF pc = "elem" THEN Returned(Err(r.err, r.w))
                                      ELSE outcome
                         /\ Dropped(Supplied(cur, Member(key, NoValue)))
    /\ UNCHANGED <<seq, pre, events>>
    /\ UNCHANGED pure

\* SerializeMap::serialize_value
MapValue(v) ==
    /\ pc \in {"elem", "struct"}
    /\ cur.k = "map"
    /\ events < MaxMembers
    /\ MemberStep(SerializeMap_serialize_value(ss, writer, v),
                  Member(IF ss.pending_key = None THEN NoKey
                         ELSE Key(ss.pending_key[1]), v))
    /\ UNCHANGED pure

\* The end call of a StructSerializer the driver held for an array element:
\* SeqSerializer::serialize_element goes on with the Result<Type> r.
ElementEnd(f) ==
    /\ outcome' = f.outcome
    /\ IF f.ok
         THEN /\ pc' = "seq"
              /\ writer' = f.w
              /\ seq' = f.seq
              /\ UNCHANGED result
         ELSE /\ Fail(f.err, f.w)
              /\ UNCHANGED seq

\* The end call of the StructSerializer the driver holds.
End ==
    /\ pc \in {"elem", "struct"}
    /\ IF pc = "struct"
         THEN /\ Finish(serialize_struct_end(ss, writer))
              /\ UNCHANGED <<seq, outcome>>
         ELSE ElementEnd(SeqSerializer_fold(seq, serialize_struct_end(ss, writer)))
    /\ Dropped(cur)
    /\ UNCHANGED <<pre, events>>
    /\ UNCHANGED pure

\* SeqSerializer::end
EndSeq ==
    /\ pc = "seq"
    /\ Finish(SeqSerializer_end(seq, writer))
    /\ UNCHANGED <<seq, ss, elems, cur, pre, events, outcome>>
    /\ UNCHANGED pure

Next ==
    \/ \E v \in TopValues : Encode(v)
    \/ BeginSeq
    \/ \E b \in Begins : BeginStruct(b[1], b[2])
    \/ \E v \in ElemValues : Element(v)
    \/ \E b \in Begins : ElementBegin(b[1], b[2])
    \/ \E v \in MemberValues : TupleElement(v)
    \/ \E name \in Names, v \in MemberValues : StructField(name, v)
    \/ \E key \in KeyValues, v \in MemberValues : MapEntry(key, v)
    \/ \E key \in KeyValues : MapKey(key)
    \/ \E v \in MemberValues : MapValue(v)
    \/ End
    \/ EndSeq

Spec == Init /\ [][Next]_vars

----------------------------------------------------------------------------
\* The type model alone: matches and merge applied to every pair of types of
\* a bounded universe.

\* Fields of a struct type of the universe.
MaxFields == 2

Leaves == {TAny, TBool, TNumber, TString, TBytes}

FieldNameOptions == {None, Some("a"), Some("b")}

FieldsOf(types) ==
    {with_type_and_name(t, n) : t \in types, n \in FieldNameOptions}

\* The struct types of at most n fields drawn from fs.
StructsOf(fs, n) == {TStruct(f) : f \in UNION {[1..k -> fs] : k \in 0..n}}

FlatStructs == StructsOf(FieldsOf({TAny, TNumber, TString}), MaxFields)

\* What the nested types are built of.
Inner == Leaves \cup StructsOf(FieldsOf({TAny, TNumber}), 1)

ArrayTypes == {TArray(t) : t \in Inner \cup {TArray(TAny), TArray(TNumber)}}

NestedStructs ==
    StructsOf(FieldsOf({TArray(TAny), TArray(TNumber), TArray(TString),
                        TStruct(<<>>),
                        TStruct(<<with_name(None)>>),
                        TStruct(<<with_type_and_name(TNumber, Some("a"))>>),
                        TStruct(<<with_type_and_name(TString, Some("b"))>>)}), 1)

Types == Leaves \cup FlatStructs \cup ArrayTypes \cup NestedStructs

TypeInit ==
    /\ pc = "types"
    /\ EncoderInit
    /\ self \in Types
    /\ other \in Types
    /\ matched = None
    /\ merged = None
    /\ key_value = NoKey
    /\ identifier = NoIdentifier

\* self.matches(&other)
Type_matches ==
    /\ pc = "types"
    /\ matched = None
    /\ matched' = Some(matches(self, other))
    /\ UNCHANGED <<pc, writer, seq, ss, result, elems, cur, pre, events, outcome,
                   self, other, merged, key_value, identifier, hasher, replay>>

\* self.merge(&other)
Type_merge ==
    /\ pc = "types"
    /\ matched # None
    /\ merged = None
    /\ merged' = Some(merge(self, other))
    /\ UNCHANGED <<pc, writer, seq, ss, result, elems, cur, pre, events, outcome,
                   self, other, matched, key_value, identifier, hasher, replay>>

TypeNext == Type_matches \/ Type_merge

TypeSpec == TypeInit /\ [][TypeNext]_vars

----------------------------------------------------------------------------
\* The identifier encoder alone: to_identifier applied to every key value of
\* a bounded universe.

\* Wrappers (Some, newtype struct, newtype variant) around a key value.
MaxWrap == 1

PlainKeys ==
    {VBool(FALSE), VBool(TRUE), VFloat("f32", 5), VFloat("f64", 5),
     VChar("a"), VStr("a"), VStr("b"), VStr(""),
     VBytes(<<>>), VBytes(<<97>>), VBytes(<<97, 98>>),
     VBytes(<<255>>), VBytes(<<97, 255>>),
     VNone, VUnit, VUnitStruct("a"), VUnitVariant("b"),
     VSeq(<<>>), VSeq(<<VStr("a")>>),
     VTuple(<<VStr("a")>>), VStruct(<<>>), VMap(<<>>),
     VMap(<<Member(VStr("a"), VInt(1))>>),
     VTupleVariant(1), VStructVariant(1)}
    \cup {VNum(width, 7) : width \in IntegerKinds}

RECURSIVE WrappedKeys(_)
WrappedKeys(n) ==
    IF n = 0 THEN PlainKeys
    ELSE LET inner == WrappedKeys(n - 1)
         IN  inner \cup {VSome(k) : k \in inner}
                   \cup {VNewtypeStruct(k) : k \in inner}
                   \cup {VNewtypeVariant(k) : k \in inner}

AllKeys == WrappedKeys(MaxWrap)

IdentifierInit ==
    /\ pc = "key"
    /\ EncoderInit
    /\ self = TAny
    /\ other = TAny
    /\ matched = None
    /\ merged = None
    /\ key_value \in AllKeys
    /\ identifier = NoIdentifier

\* to_identifier(&key)
ToIdentifier ==
    /\ pc = "key"
    /\ pc' = "resolved"
    /\ identifier' = to_identifier(key_value)
    /\ UNCHANGED <<writer, seq, ss, result, elems, cur, pre, events, outcome,
                   self, other, matched, merged, key_value, hasher, replay>>

IdentifierNext == ToIdentifier

IdentifierSpec == IdentifierInit /\ [][IdentifierNext]_vars

----------------------------------------------------------------------------
\* Two calls of to_bytes on the same value, each with a Serializer and a
\* Vec of its own; every HashMap::new() takes the state the hasher is in.

ReplayValues == TopValues \cup ReorderedArrays

ReplayInit ==
    /\ pc = "fresh"
    /\ writer = <<>>
    /\ seq = SeqSerializer_with_serializer
    /\ ss = StructSerializer_with_serializer
    /\ result = NoResult
    /\ elems = <<>>
    /\ cur \in ReplayValues
    /\ pre = [writer |-> <<>>, seq |-> SeqSerializer_with_serializer]
    /\ events = 0
    /\ outcome = NoResult
    /\ hasher \in Hashers
    /\ replay = NoReplay
    /\ self = TAny
    /\ other = TAny
    /\ matched = None
    /\ merged = None
    /\ key_value = NoKey
    /\ identifier = NoIdentifier

\* What the first call leaves: the sink and the result.
Encoded(r) ==
    /\ writer' = r.w
    /\ result' = Returned(r)

\* What the second call leaves: its own sink and result.
Replayed(r) ==
    replay' = [replay EXCEPT !.ran = TRUE, !.w = r.w, !.result = Returned(r)]

\* to_bytes(value), the first call.
FirstEncode ==
    /\ pc = "fresh"
    /\ pc' = "once"
    /\ Encoded(to_bytes(cur))
    /\ replay' = [replay EXCEPT !.hasher = hasher]
    /\ hasher' \in Hashers
    /\ UNCHANGED <<seq, ss, elems, cur, pre, events, outcome,
                   self, other, matched, merged, key_value, identifier>>

\* to_bytes(value), the second call.
SecondEncode ==
    /\ pc = "once"
    /\ pc' = "twice"
    /\ Replayed(to_bytes(cur))
    /\ UNCHANGED <<writer, result, seq, ss, elems, cur, pre, events, outcome,
                   self, other, matched, merged, key_value, identifier, hasher>>

ReplayNext == FirstEncode \/ SecondEncode

ReplaySpec == ReplayInit /\ [][ReplayNext]_vars

----------------------------------------------------------------------------
\* What the properties below speak of.

\* The element the array was given last, once its step has returned.
AfterElement == pc \in {"seq", "failed"} /\ elems # <<>>

LastElem == elems[Len(elems)]

\* The running element type the last element was encoded against.
Expected == pre.seq.element_type

\* The text the last element's encoder wrote, after the separator.
ElemText ==
    Text(SubSeq(writer,
                Len(pre.writer) + (IF pre.seq.has_elements THEN 2 ELSE 1),
                Len(writer)))

ScalarKinds == {"bool", "i64", "str", "none"}

\* The scalar table of the literal grammar: the type and the text of a scalar.
ScalarType(v) ==
    IF v.k = "bool" THEN TBool
    ELSE IF v.k = "i64" THEN TNumber
    ELSE IF v.k = "str" THEN TString
    ELSE TAny

ScalarText(v) ==
    IF v.k = "bool" THEN (IF v.b THEN "TRUE" ELSE "FALSE")
    ELSE IF v.k = "i64" THEN ToString(v.n)
    ELSE IF v.k = "str" THEN "\"" \o v.s \o "\""
    ELSE "NULL"

\* The name a member carries, if any.
MemberName(m) == IF m.key.k = "str" THEN Some(m.key.s) ELSE None

MemberNames(mem) ==
    {mem[j].key.s : j \in {i \in 1..Len(mem) : mem[i].key.k = "str"}}

FieldNames(fs) ==
    {fs[j].field_name[1] : j \in {i \in 1..Len(fs) : fs[i].field_name # None}}

\* Every field is named and no two fields share a name.
NamedShape(fs) ==
    /\ fs # <<>>
    /\ \A i \in 1..Len(fs) : fs[i].field_name # None
    /\ \A i, j \in 1..Len(fs) : fs[i].field_name = fs[j].field_name => i = j

\* Every member is a named scalar and no two members share a name.
NamedMembers(mem) ==
    /\ \A i \in 1..Len(mem) : mem[i].key.k = "str" /\ mem[i].val.k \in ScalarKinds
    /\ \A i, j \in 1..Len(mem) : mem[i].key = mem[j].key => i = j

\* The member of mem named name is compatible with the field of fs that has
\* its name.
CompatibleMember(fs, m) ==
    \A i \in 1..Len(fs) :
        fs[i].field_name = MemberName(m)
            => matches(fs[i].field_type, ScalarType(m.val))

\* The text of the value mem supplies under the name, NULL when it supplies
\* none.
SuppliedText(mem, name) ==
    IF name \in MemberNames(mem)
      THEN ScalarText(mem[CHOOSE j \in 1..Len(mem) :
                              MemberName(mem[j]) = Some(name)].val)
      ELSE "NULL"

\* The members of mem rendered in the order of the fields fs, from the i-th on.
RECURSIVE NormalizedText(_, _, _)
NormalizedText(fs, mem, i) ==
    IF i > Len(fs) THEN ""
    ELSE (IF i > 1 THEN "," ELSE "")
         \o SuppliedText(mem, fs[i].field_name[1])
         \o (IF fs[i].field_name[1] # ""
               THEN " AS " \o Backquote \o fs[i].field_name[1] \o Backquote
               ELSE "")
         \o NormalizedText(fs, mem, i + 1)

NormalizedStruct(fs, mem) == "STRUCT(" \o NormalizedText(fs, mem, 1) \o ")"

\* The last element is a map or struct encoded against a running type that is
\* a struct of named fields.
UnderNamedShape ==
    /\ AfterElement
    /\ Expected.k = "Struct"
    /\ NamedShape(Expected.fields)
    /\ LastElem.k \in {"map", "struct"}
    /\ LastElem.mem # <<>>
    /\ NamedMembers(LastElem.mem)

----------------------------------------------------------------------------
\* C1: when the elements before it established a struct of named fields
\* f1..fn and an element supplies exactly these names, in any order, with
\* values compatible with the fields' types, the element is encoded with its
\* members in the order f1..fn, each with its own value and name.
C1_FieldOrderNormalized ==
    ( /\ UnderNamedShape
      /\ MemberNames(LastElem.mem) = FieldNames(Expected.fields)
      /\ \A i \in 1..Len(LastElem.mem) :
             CompatibleMember(Expected.fields, LastElem.mem[i]) )
    => /\ pc = "seq"
       /\ ElemText = NormalizedStruct(Expected.fields, LastElem.mem)

\* C2: when an element supplies only some of the established named fields,
\* with compatible values, its encoding has all the fields in the established
\* order: supplied ones with their own values, the others with NULL.
C2_MissingFieldsNull ==
    ( /\ UnderNamedShape
      /\ MemberNames(LastElem.mem) \subseteq FieldNames(Expected.fields)
      /\ MemberNames(LastElem.mem) # FieldNames(Expected.fields)
      /\ \A i \in 1..Len(LastElem.mem) :
             CompatibleMember(Expected.fields, LastElem.mem[i]) )
    => /\ pc = "seq"
       /\ ElemText = NormalizedStruct(Expected.fields, LastElem.mem)

\* The last element is a struct, tuple or map whose end call returned Ok
\* under a running type that is a struct.
ClosedUnderShape ==
    /\ AfterElement
    /\ Expected.k = "Struct"
    /\ LastElem.k \in AggregateKinds
    /\ outcome.ok

\* C3: a struct closed successfully under an expected shape of n fields has
\* exactly n members, and its i-th member carries the name of the i-th
\* expected field whenever both carry a name.
C3_ShapePreserved ==
    ClosedUnderShape
    => /\ outcome.type.k = "Struct"
       /\ Len(outcome.type.fields) = Len(Expected.fields)
       /\ \A i \in 1..Len(Expected.fields) :
              ( /\ outcome.type.fields[i].field_name # None
                /\ Expected.fields[i].field_name # None )
              => outcome.type.fields[i].field_name
                     = Expected.fields[i].field_name

\* Every map among the elements was given a key before each value.
KeyedMaps ==
    \A i \in 1..Len(elems) :
        elems[i].k = "map"
            => \A j \in 1..Len(elems[i].mem) : elems[i].mem[j].key # NoKey

\* C3 as stated: a struct closed successfully under an expected shape of n
\* fields has exactly n members, and every member that carries a name carries
\* the name of the expected field at its position.
C3_EmittedNamesAreExpected ==
    (ClosedUnderShape /\ KeyedMaps)
    => /\ outcome.type.k = "Struct"
       /\ Len(outcome.type.fields) = Len(Expected.fields)
       /\ \A i \in 1..Len(Expected.fields) :
              outcome.type.fields[i].field_name # None
              => outcome.type.fields[i].field_name
                     = Expected.fields[i].field_name

\* A struct closed under a shape of named fields after its first member came
\* under another name than the first expected field's.
C3_ClosedOutOfOrder ==
    /\ ClosedUnderShape
    /\ NamedShape(Expected.fields)
    /\ LastElem.mem # <<>>
    /\ MemberName(LastElem.mem[1]) # None
    /\ MemberName(LastElem.mem[1]) # Expected.fields[1].field_name

----------------------------------------------------------------------------
\* Every element given to the array so far is a scalar.
ScalarArray ==
    /\ AfterElement
    /\ \A i \in 1..Len(elems) : elems[i].k \in ScalarKinds

\* All the elements that are not NULL have one scalar type.
SameScalarKind ==
    \A i, j \in 1..Len(elems) :
        \/ elems[i].k = "none"
        \/ elems[j].k = "none"
        \/ ScalarType(elems[i]) = ScalarType(elems[j])

\* The type of the first of the first n elements that is not NULL; Any when
\* all of them are NULL.
FirstScalarType(n) ==
    IF \E i \in 1..n : elems[i].k # "none"
      THEN ScalarType(elems[CHOOSE i \in 1..n :
                                /\ elems[i].k # "none"
                                /\ \A j \in 1..(i - 1) : elems[j].k = "none"])
      ELSE TAny

\* C4: an array of scalars is accepted element by element exactly as long as
\* its non-NULL elements have one scalar type; the first element of another
\* type fails with UnexpectedType, expected being the running element type
\* and found the element's type.
C4_HomogeneousScalars ==
    ScalarArray
    => /\ (pc = "seq") <=> SameScalarKind
       /\ Expected = FirstScalarType(Len(elems) - 1)
       /\ pc = "failed"
              => result.err = UnexpectedType(FirstScalarType(Len(elems) - 1),
                                             ScalarType(LastElem))

\* An array of scalars whose last element was rejected for its type.
C4_HeterogeneousRejected ==
    /\ ScalarArray
    /\ ~SameScalarKind
    /\ pc = "failed"
    /\ result.err.e = "UnexpectedType"

----------------------------------------------------------------------------
\* C5: an element that supplies, under the name of an established field, a
\* value not compatible with the field's type fails with UnexpectedType.
C5_MismatchedFieldRejected ==
    ( /\ UnderNamedShape
      /\ MemberNames(LastElem.mem) \subseteq FieldNames(Expected.fields)
      /\ \E i \in 1..Len(LastElem.mem) :
             ~CompatibleMember(Expected.fields, LastElem.mem[i]) )
    => /\ pc = "failed"
       /\ result.err.e = "UnexpectedType"

----------------------------------------------------------------------------
\* The last element is a struct, tuple or map that supplied no member.
EmptyElement ==
    /\ AfterElement
    /\ LastElem.k \in AggregateKinds
    /\ LastElem.mem = <<>>

\* The top-level value is a struct, tuple or map that supplied no member.
EmptyTop ==
    /\ pc \in {"done", "failed"}
    /\ elems = <<>>
    /\ cur.k \in AggregateKinds
    /\ cur.mem = <<>>

\* The begin call of the last element rejects a declared length of zero.
DeclaredEmpty == LastElem.k # "map" /\ LastElem.len = 0

\* The sink holds no struct literal without members.
NoEmptyStructText ==
    \A i \in 1..(Len(writer) - 1) : writer[i] = "STRUCT(" => writer[i + 1] # ")"

\* C6: a struct, tuple or map that supplies no member fails with EmptyStruct
\* at the top level, as an array element while the running element type is
\* Any, and under an established struct shape when it is a tuple or struct
\* declared with length zero; under an established struct shape a map (or a
\* struct or tuple declared longer) without members is closed successfully
\* with every expected field NULL.  The sink never holds "STRUCT()".
C6_EmptyStruct ==
    /\ EmptyTop => pc = "failed" /\ result.err = EmptyStruct
    /\ (EmptyElement /\ (Expected.k = "Any" \/ (Expected.k = "Struct" /\ DeclaredEmpty)))
           => pc = "failed" /\ result.err = EmptyStruct
    /\ (EmptyElement /\ Expected.k = "Struct" /\ ~DeclaredEmpty)
           => /\ pc = "seq"
              /\ Len(outcome.type.fields) = Len(Expected.fields)
              /\ NamedShape(Expected.fields)
                     => ElemText = NormalizedStruct(Expected.fields, <<>>)
    /\ NoEmptyStructText

\* C6 as stated: without members the encoding fails with EmptyStruct, also as
\* a later element of an array whose earlier elements established a struct
\* shape.
C6_EmptyAlwaysRejected ==
    /\ EmptyTop => pc = "failed" /\ result.err = EmptyStruct
    /\ (EmptyElement /\ Expected.k \in {"Any", "Struct"})
           => pc = "failed" /\ result.err = EmptyStruct
    /\ NoEmptyStructText

\* A map without members closed under an established struct shape.
C6_EmptyUnderShape ==
    /\ EmptyElement
    /\ Expected.k = "Struct"
    /\ LastElem.k = "map"
    /\ pc = "seq"

----------------------------------------------------------------------------
\* C7: an element that supplies a member under a name none of the
\* established fields has fails with UnexpectedStructField.
C7_UnknownFieldRejected ==
    ( /\ UnderNamedShape
      /\ ~(MemberNames(LastElem.mem) \subseteq FieldNames(Expected.fields))
      /\ \A i \in 1..Len(LastElem.mem) :
             CompatibleMember(Expected.fields, LastElem.mem[i]) )
    => /\ pc = "failed"
       /\ result.err.e = "UnexpectedStructField"

----------------------------------------------------------------------------
\* The members supplied so far to the aggregate the next state's last member
\* step was made on.
SuppliedNext ==
    IF pc = "elem" /\ pc' # "elem" THEN elems'[Len(elems')].mem ELSE cur'.mem

\* A member step is taken under a name the buffer holds a member for, while
\* the next expected field has another name.
BufferedAgain ==
    /\ pc = "elem"
    /\ events' = events + 1
    /\ ss.fields_buffer # None
    /\ ss.fields_buffer[1].expected_fields # <<>>
    /\ LET name == MemberName(SuppliedNext[Len(SuppliedNext)])
           head == Head(ss.fields_buffer[1].expected_fields).field_name
       IN  /\ name # None
           /\ head # None
           /\ head # name
           /\ \E f \in DOMAIN ss.fields_buffer[1].fields_buffer :
                  f.field_name = name

\* C8: the second of two members buffered under one name fails with
\* DuplicateStructField.
C8_DuplicateRejected ==
    [][ BufferedAgain
        => /\ pc' = "failed"
           /\ result'.err.e = "DuplicateStructField" ]_vars

----------------------------------------------------------------------------
\* A value step is taken on a map while no key is pending.
ValueWithoutKey ==
    /\ pc \in {"elem", "struct"}
    /\ cur.k = "map"
    /\ ss.pending_key = None
    /\ events' = events + 1
    /\ SuppliedNext[Len(SuppliedNext)].key = NoKey

\* C9: a value step on a map with no key pending aborts the program; it is
\* not accepted as a member.
C9_ValueNeedsKey == [][ ValueWithoutKey => pc' = "aborted" ]_vars

----------------------------------------------------------------------------
\* The last element is a scalar encoded against a scalar type or Any.
TypedScalar ==
    /\ AfterElement
    /\ LastElem.k \in ScalarKinds
    /\ Expected.k \in Primitive \cup {"Any"}

\* C10: a scalar is written to the sink by the typed wrapper whether or not
\* its type matches the expected one; when it matches the scalar's own type
\* is returned, and when it does not the call fails with UnexpectedType,
\* expected and found, after the scalar's text was written.
C10_TypedScalar ==
    TypedScalar
    => /\ ElemText = ScalarText(LastElem)
       /\ matches(Expected, ScalarType(LastElem))
              => /\ pc = "seq"
                 /\ outcome = Returned(Ok(ScalarType(LastElem), <<>>))
       /\ ~matches(Expected, ScalarType(LastElem))
              => /\ pc = "failed"
                 /\ result.err = UnexpectedType(Expected, ScalarType(LastElem))
                 /\ outcome = result

\* C10 as stated: when the type does not match, the call fails with
\* UnexpectedType and has written no text for the element.
C10_MismatchWritesNothing ==
    TypedScalar
    => /\ matches(Expected, ScalarType(LastElem))
              => /\ pc = "seq"
                 /\ ElemText = ScalarText(LastElem)
                 /\ outcome = Returned(Ok(ScalarType(LastElem), <<>>))
       /\ ~matches(Expected, ScalarType(LastElem))
              => /\ pc = "failed"
                 /\ result.err = UnexpectedType(Expected, ScalarType(LastElem))
                 /\ ElemText = ""

\* A scalar rejected by the typed wrapper with its text in the sink.
C10_RejectedAfterWrite ==
    /\ TypedScalar
    /\ Expected.k \in Primitive
    /\ ~matches(Expected, ScalarType(LastElem))
    /\ pc = "failed"
    /\ ElemText # ""

----------------------------------------------------------------------------
\* The last element is a sequence of at most one scalar.
SequenceElement ==
    /\ AfterElement
    /\ LastElem.k = "seq"
    /\ Len(LastElem.elems) <= 1
    /\ \A i \in 1..Len(LastElem.elems) : LastElem.elems[i].k \in ScalarKinds

\* The element type a nested array starts from under the running type.
Seed == IF Expected.k = "Array" THEN Expected.elem[1] ELSE TAny

\* The array element's StructSerializer has just been returned by the begin
\* call: no member or key has been given to it.
ElementBegun == pc = "elem" /\ cur.mem = <<>> /\ ss.pending_key = None

\* C11: under the typed wrapper a sequence begins only if the expected type
\* is Any or an array type, and then the nested array's running element type
\* starts at the expected element type (Any under Any); a struct, map or
\* tuple begins only if the expected type is Any or a struct type, whose
\* fields then are the expected shape of the normalizer; under any other
\* expected type the begin call fails with UnexpectedType and writes nothing.
C11_TypedBegin ==
    /\ (SequenceElement /\ Expected.k \notin {"Any", "Array"})
           => /\ pc = "failed"
              /\ result.err = UnexpectedType(Expected, any_array)
              /\ ElemText = ""
    /\ (SequenceElement /\ Expected.k \in {"Any", "Array"} /\ LastElem.elems = <<>>)
           => /\ pc = "seq"
              /\ outcome.type = TArray(Seed)
              /\ ElemText = "[]"
    /\ (SequenceElement /\ Expected.k \in {"Any", "Array"} /\ LastElem.elems # <<>>)
           => LET found == ScalarType(LastElem.elems[1])
              IN  IF matches(Seed, found)
                    THEN /\ pc = "seq"
                         /\ outcome.type = TArray(merge(Seed, found)[1])
                    ELSE /\ pc = "failed"
                         /\ result.err = UnexpectedType(Seed, found)
    /\ ElementBegun
           => /\ Expected.k \in {"Any", "Struct"}
              /\ writer[Len(writer)] = "STRUCT("
              /\ ss.fields = <<>>
              /\ ss.fields_buffer =
                     IF Expected.k = "Struct"
                       THEN Some(FieldsBuffer_with_expected_fields(Expected.fields))
                       ELSE None
    /\ (AfterElement /\ LastElem.k \in AggregateKinds
                     /\ Expected.k \notin {"Any", "Struct"})
           => /\ pc = "failed"
              /\ result.err = UnexpectedType(Expected, TStruct(<<>>))
              /\ ElemText = ""

\* An empty sequence encoded under an array of numbers: its type is the
\* array of numbers.
C11_NestedArraySeeded ==
    /\ SequenceElement
    /\ LastElem.elems = <<>>
    /\ Expected = TArray(TNumber)
    /\ pc = "seq"
    /\ outcome.type = TArray(TNumber)

----------------------------------------------------------------------------
VariantKinds == {"newtype_variant", "tuple_variant", "struct_variant"}

\* The top-level value was given whole to to_bytes.
EncodedTop == pc \in {"done", "failed"} /\ elems = <<>> /\ cur \in TopValues

\* C12: a newtype variant, a tuple variant and a struct variant fail with
\* UnsupportedType and write nothing, given to the literal encoder or, as an
\* array element, to the typed wrapper under any expected type.
C12_VariantsUnsupported ==
    /\ (EncodedTop /\ cur.k \in VariantKinds)
           => /\ pc = "failed"
              /\ result.err = UnsupportedType
              /\ writer = <<>>
    /\ (AfterElement /\ LastElem.k \in VariantKinds)
           => /\ pc = "failed"
              /\ result.err = UnsupportedType
              /\ ElemText = ""

\* A newtype variant around a number rejected where a number is expected.
C12_VariantUnderNumber ==
    /\ AfterElement
    /\ LastElem = VNewtypeVariant(VInt(1))
    /\ Expected = TNumber
    /\ pc = "failed"
    /\ result.err = UnsupportedType

----------------------------------------------------------------------------
NullKinds == {"none", "unit", "unit_struct"}

TableKinds ==
    {"bool", "char", "str", "unit_variant", "bytes"}
        \cup IntegerKinds \cup FloatKinds \cup NullKinds

\* The type column of the scalar encoding table.
TableType(v) ==
    IF v.k = "bool" THEN TBool
    ELSE IF v.k \in IntegerKinds \cup FloatKinds THEN TNumber
    ELSE IF v.k \in {"char", "str", "unit_variant"} THEN TString
    ELSE IF v.k = "bytes" THEN TBytes
    ELSE TAny

\* C14: a boolean is written as TRUE or FALSE and typed Bool; an integer or
\* float of any width is typed Number; a character, a string and a unit
\* variant are typed String; a byte sequence is typed Bytes; an absent
\* optional, a unit and a unit struct are written as NULL and typed Any.
C14_ScalarTable ==
    (EncodedTop /\ cur.k \in TableKinds)
    => /\ pc = "done"
       /\ result.type = TableType(cur)
       /\ cur.k = "bool" => Text(writer) = (IF cur.b THEN "TRUE" ELSE "FALSE")
       /\ cur.k \in NullKinds => Text(writer) = "NULL"
       /\ cur = VInt(42) => Text(writer) = "42"
       /\ cur = VFloat("f64", 5) => Text(writer) = "1.25"

\* A unit variant encoded as a string.
C14_UnitVariantIsString ==
    /\ EncodedTop
    /\ cur.k = "unit_variant"
    /\ pc = "done"
    /\ result.type = TString
    /\ Text(writer) = "\"" \o cur.variant \o "\""

----------------------------------------------------------------------------
\* The grammar of the literals, read off the sink's tokens.

Opens == {"[", "STRUCT("}

Closes == {"]", ")"}

\* How many brackets are open after the i-th token of w.
Depth(w, i) ==
    Cardinality({j \in 1..i : w[j] \in Opens})
        - Cardinality({j \in 1..i : w[j] \in Closes})

\* What the token adds to the number of open brackets.
Delta(token) ==
    IF token \in Opens THEN 1 ELSE IF token \in Closes THEN -1 ELSE 0

\* From the i-th token of w on, d brackets being open after it: a bracket
\* stays open until the last token, which closes the last one.
RECURSIVE Balanced(_, _, _)
Balanced(w, i, d) ==
    /\ IF i < Len(w) THEN d >= 1 ELSE d = 0
    /\ i < Len(w) => Balanced(w, i + 1, d + Delta(w[i + 1]))

\* w is one literal from open to close: close matches open.
Enclosed(w, open, close) ==
    /\ Len(w) >= 2
    /\ w[1] = open
    /\ w[Len(w)] = close
    /\ Balanced(w, 1, Delta(w[1]))

\* The commas of w that belong to the outermost literal.
Separators(w) == {i \in 1..Len(w) : w[i] = "," /\ Depth(w, i) = 1}

\* The tokens of w from the i-th to the last but one, cut at the commas of
\* the outermost literal: d brackets are open inside it before the i-th
\* token, and acc holds the pieces read so far, the last one still growing.
RECURSIVE Split(_, _, _, _)
Split(w, i, d, acc) ==
    IF i >= Len(w) THEN acc
    ELSE IF w[i] = "," /\ d = 0 THEN Split(w, i + 1, d, Append(acc, <<>>))
    ELSE Split(w, i + 1, d + Delta(w[i]),
               [acc EXCEPT ![Len(acc)] = Append(@, w[i])])

\* The token runs between the token at from, which opens w, the separators
\* and the closing token of w.
Pieces(w, from) == Split(w, from + 1, 0, << <<>> >>)

\* A piece is a text of its own: not empty, no comma at either end, every
\* bracket closed.
WellFormedPiece(p) ==
    /\ p # <<>>
    /\ p[1] # ","
    /\ p[Len(p)] # ","
    /\ Depth(p, Len(p)) = 0

\* A scalar, or a sequence of scalars.
Plain(v) ==
    \/ v.k \in ScalarKinds
    \/ /\ v.k = "seq"
       /\ \A i \in 1..Len(v.elems) : v.elems[i].k \in ScalarKinds

\* The texts of the scalars es, from the i-th on, joined by commas.
RECURSIVE JoinedScalars(_, _)
JoinedScalars(es, i) ==
    IF i > Len(es) THEN ""
    ELSE (IF i > 1 THEN "," ELSE "") \o ScalarText(es[i]) \o JoinedScalars(es, i + 1)

\* The literal of a plain value.
Literal(v) ==
    IF v.k = "seq" THEN "[" \o JoinedScalars(v.elems, 1) \o "]" ELSE ScalarText(v)

\* The type of the first of the scalars es that is not NULL; Any when there
\* is none.
FirstTyped(es) ==
    IF \E i \in 1..Len(es) : es[i].k # "none"
      THEN ScalarType(es[CHOOSE i \in 1..Len(es) :
                             /\ es[i].k # "none"
                             /\ \A j \in 1..(i - 1) : es[j].k = "none"])
      ELSE TAny

\* The pieces ps are the texts of the elements es, one piece per element.
ElementPieces(ps, es) ==
    /\ Len(ps) = (IF es = <<>> THEN 1 ELSE Len(es))
    /\ es = <<>> => ps = << <<>> >>
    /\ \A i \in 1..Len(es) :
           /\ WellFormedPiece(ps[i])
           /\ Plain(es[i]) => Text(ps[i]) = Literal(es[i])
           /\ es[i].k = "seq" => Enclosed(ps[i], "[", "]")
           /\ es[i].k \in AggregateKinds => Enclosed(ps[i], "STRUCT(", ")")

\* w is the text of an array of the elements es whose type is type.
SequenceGrammar(w, es, type) ==
    /\ Enclosed(w, "[", "]")
    /\ ElementPieces(Pieces(w, 1), es)
    /\ type.k = "Array"
    /\ es = <<>> => type = TArray(TAny)
    /\ (\A i \in 1..Len(es) : es[i].k \in ScalarKinds)
           => /\ type = TArray(FirstTyped(es))
              /\ Text(w) = Literal(VSeq(es))

\* An array given element by element has been closed.
StreamedArray == pc = "done" /\ result.type.k = "Array" /\ ~EncodedTop

\* An array given whole has been encoded.
EncodedArray == EncodedTop /\ pc = "done" /\ cur.k = "seq"

\* C15: the text of a successfully encoded array of n >= 0 elements is '['
\* followed by the n element texts with exactly one ',' between consecutive
\* elements, none before the first or after the last, followed by ']', and
\* the type returned is the array of the running element type, Array(Any)
\* for n = 0.
C15_SequenceGrammar ==
    /\ StreamedArray
           => /\ SequenceGrammar(writer, elems, result.type)
              /\ result.type = TArray(seq.element_type)
    /\ EncodedArray => SequenceGrammar(writer, cur.elems, result.type)

\* A closed array of two elements whose text holds more commas than the one
\* between its elements.
C15_CommasInsideElements ==
    /\ StreamedArray
    /\ Len(elems) = 2
    /\ Cardinality(Separators(writer)) = 1
    /\ Cardinality({i \in 1..Len(writer) : writer[i] = ","}) > 1

----------------------------------------------------------------------------
\* The names a member can be given in the model, the empty one included.
KnownNames == {"", "a", "b", "c", "x"}

SuffixOf(name) == " AS " \o Backquote \o name \o Backquote

SuffixTokens == {SuffixOf(name) : name \in KnownNames}

\* The key of a field is present and not empty.
Named(f) == f.field_name # None /\ f.field_name[1] # ""

\* The piece p is one member of the field f: a value, followed by the
\* suffix of f's name iff f is named, and by no suffix otherwise.
MemberPiece(p, f) ==
    /\ WellFormedPiece(p)
    /\ Named(f) => /\ Len(p) >= 2
                   /\ p[Len(p)] = SuffixOf(f.field_name[1])
                   /\ p[Len(p) - 1] \notin SuffixTokens
    /\ ~Named(f) => p[Len(p)] \notin SuffixTokens

\* The name the key of a supplied member gives its field.
KeyName(key) ==
    IF key.k = "str" THEN Some(key.s)
    ELSE IF key.k = "unit" THEN Some("")
    ELSE None

\* The piece p and the field f are what the supplied member m gives when it
\* is emitted as it comes.
DirectMember(p, f, m) ==
    /\ f.field_name = KeyName(m.key)
    /\ m.val.k \in ScalarKinds
           => /\ f.field_type = ScalarType(m.val)
              /\ Text(p) = ScalarText(m.val)
                               \o (IF Named(f) THEN SuffixOf(f.field_name[1]) ELSE "")

\* The pieces ps are the members of the fields fs, one piece per field.
MemberPieces(ps, fs) ==
    /\ Len(ps) = Len(fs)
    /\ \A i \in 1..Len(fs) : MemberPiece(ps[i], fs[i])

\* The pieces ps and the fields fs are the supplied members mem in the order
\* they came.
DirectMembers(ps, fs, mem) ==
    /\ Len(fs) = Len(mem)
    /\ Len(ps) = Len(mem)
    /\ \A i \in 1..Len(mem) : DirectMember(ps[i], fs[i], mem[i])

\* w is the text of a struct whose type is type.
StructGrammar(w, type) ==
    /\ Enclosed(w, "STRUCT(", ")")
    /\ type.k = "Struct"
    /\ type.fields # <<>>
    /\ MemberPieces(Pieces(w, 1), type.fields)

\* A struct, map or tuple encoded at top level, given whole or member by
\* member.
TopStruct == pc = "done" /\ elems = <<>> /\ cur.k \in AggregateKinds

\* The last element of the array is a struct, map or tuple whose end call
\* returned Ok.
ClosedElement == AfterElement /\ LastElem.k \in AggregateKinds /\ outcome.ok

\* The tokens the last element's encoder wrote, after the separator.
ElemTokens ==
    SubSeq(writer,
           Len(pre.writer) + (IF pre.seq.has_elements THEN 2 ELSE 1),
           Len(writer))

\* C16: the text of a successfully encoded struct, map or tuple is 'STRUCT('
\* followed by its members with exactly one ',' between consecutive members,
\* none leading or trailing, followed by ')', whether the members were
\* emitted as they came, buffered or synthesized; a member carries the
\* suffix AS and its quoted key iff its key is present and not empty; and
\* the type returned is the struct of the emitted members' fields in the
\* order they were emitted.
C16_StructGrammar ==
    /\ TopStruct
           => /\ StructGrammar(writer, result.type)
              /\ DirectMembers(Pieces(writer, 1), result.type.fields, cur.mem)
    /\ ClosedElement => StructGrammar(ElemTokens, outcome.type)
    /\ (ClosedElement /\ Expected.k = "Any")
           => DirectMembers(Pieces(ElemTokens, 1), outcome.type.fields,
                            LastElem.mem)

\* A struct closed under a shape of two named fields of which it supplied
\* the second only, before its turn: one member is synthesized and one comes
\* from the buffer.
C16_BufferedAndSynthesized ==
    /\ ClosedElement
    /\ Expected.k = "Struct"
    /\ Len(Expected.fields) = 2
    /\ NamedShape(Expected.fields)
    /\ Len(LastElem.mem) = 1
    /\ MemberName(LastElem.mem[1]) = Expected.fields[2].field_name
    /\ Cardinality(Separators(ElemTokens)) = 1

----------------------------------------------------------------------------
\* to_identifier has been applied to key_value.
Resolved == pc = "resolved"

\* The key inside its wrappers: present optionals, newtype structs and
\* newtype variants.
RECURSIVE Unwrapped(_)
Unwrapped(k) ==
    IF k.k \in {"some", "newtype_struct", "newtype_variant"}
      THEN Unwrapped(k.inner) ELSE k

\* A byte sequence of the model that is text: it holds ASCII letters only.
ValidText(bs) == \A i \in 1..Len(bs) : bs[i] \in {97, 98}

\* The letters a byte sequence of the model spells.
RECURSIVE Letters(_)
Letters(bs) ==
    IF bs = <<>> THEN ""
    ELSE (IF Head(bs) = 97 THEN "a" ELSE "b") \o Letters(Tail(bs))

\* The text a key of an accepted kind stands for.
KeyText(k) ==
    IF k.k = "str" THEN k.s
    ELSE IF k.k = "char" THEN k.c
    ELSE IF k.k = "unit_struct" THEN k.name
    ELSE IF k.k = "unit_variant" THEN k.variant
    ELSE IF k.k = "bytes" THEN Letters(k.bytes)
    ELSE ""

\* The type a key of a rejected kind is reported with.
RejectedType(k) ==
    IF k.k = "bool" THEN TBool
    ELSE IF k.k \in IntegerKinds \cup FloatKinds THEN TNumber
    ELSE IF k.k = "bytes" THEN TBytes
    ELSE IF k.k = "seq" THEN any_array
    ELSE TStruct(<<>>)

RejectedKinds ==
    {"bool", "seq", "tuple_variant", "struct_variant"}
        \cup IntegerKinds \cup FloatKinds \cup AggregateKinds

\* C13: a key is accepted iff, inside any present optional, newtype struct or
\* newtype variant that wraps it, it is a string, a character, a unit, a unit
\* struct, a unit variant, a byte sequence that is valid text, or an absent
\* optional, which like the unit gives the empty identifier; a boolean, a
\* number, a byte sequence that is not text, a sequence, a struct, map or
\* tuple and a tuple or struct variant are rejected with
\* InvalidIdentifierType of Bool, Number, Bytes, Array(Any) and Struct([]).
C13_IdentifierKinds ==
    Resolved
    => LET k == Unwrapped(key_value)
           accepted ==
               \/ k.k \in {"str", "char", "unit", "unit_struct", "unit_variant", "none"}
               \/ k.k = "bytes" /\ ValidText(k.bytes)
       IN  /\ identifier.ok <=> accepted
           /\ identifier.ok => identifier.id = KeyText(k)
           /\ ~identifier.ok
                  => /\ k.k \in RejectedKinds \cup {"bytes"}
                     /\ identifier.err = InvalidIdentifierType(RejectedType(k))

\* C13 as stated: a key is accepted iff it is a string, a character, a unit,
\* a unit struct, a unit variant or a byte sequence that is valid text.
C13_AcceptedKindsAsStated ==
    Resolved
    => LET k == Unwrapped(key_value)
           accepted ==
               \/ k.k \in {"str", "char", "unit", "unit_struct", "unit_variant"}
               \/ k.k = "bytes" /\ ValidText(k.bytes)
       IN  /\ identifier.ok <=> accepted
           /\ ~identifier.ok
                  => identifier.err = InvalidIdentifierType(RejectedType(k))

\* An absent optional resolved to the empty identifier.
C13_AbsentKeyAccepted ==
    /\ Resolved
    /\ key_value = VNone
    /\ identifier = IdentifierOk("")

----------------------------------------------------------------------------
\* The type t without the names of its struct fields, at every depth.
RECURSIVE StripNames(_)
StripNames(t) ==
    IF t.k = "Struct"
      THEN TStruct([i \in 1..Len(t.fields) |->
                      with_type_and_name(StripNames(t.fields[i].field_type), None)])
    ELSE IF t.k = "Array" THEN TArray(StripNames(t.elem[1]))
    ELSE t

\* matches has been applied to self and other.
Matched == pc = "types" /\ matched # None

\* merge has been applied to self and other.
Merged == pc = "types" /\ merged # None

\* C17: Any matches every type, every type matches Any, and every type
\* matches itself, the empty struct and nested arrays and structs included.
C17_MatchesAnyAndSelf ==
    Matched
    => /\ self = TAny => matched = Some(TRUE)
       /\ other = TAny => matched = Some(TRUE)
       /\ self = other => matched = Some(TRUE)

\* An array of structs matched with itself.
C17_NestedMatchesItself ==
    /\ Matched
    /\ self = other
    /\ self.k = "Array"
    /\ self.elem[1].k = "Struct"
    /\ self.elem[1].fields # <<>>
    /\ matched = Some(TRUE)

----------------------------------------------------------------------------
\* C18: matches gives the same answer with its operands exchanged; two struct
\* types match iff they have as many fields and their field types match
\* position by position, whatever the names of the fields are.
C18_MatchesSymmetric ==
    Matched
    => /\ matched = Some(matches(other, self))
       /\ matched = Some(matches(StripNames(self), StripNames(other)))
       /\ (self.k = "Struct" /\ other.k = "Struct")
              => matched[1] =
                     ( /\ Len(self.fields) = Len(other.fields)
                       /\ \A i \in 1..Len(self.fields) :
                              matches(self.fields[i].field_type,
                                      other.fields[i].field_type) )

\* Two structs of two fields that match although no field of the one has
\* the name of the field of the other at its position.
C18_MatchDespiteNames ==
    /\ Matched
    /\ self.k = "Struct"
    /\ other.k = "Struct"
    /\ Len(self.fields) = 2
    /\ Len(other.fields) = 2
    /\ \A i \in 1..2 : /\ self.fields[i].field_name # None
                        /\ other.fields[i].field_name # None
                        /\ self.fields[i].field_name # other.fields[i].field_name
    /\ matched = Some(TRUE)

----------------------------------------------------------------------------
\* C19: merge succeeds on (a, b) iff it succeeds on (b, a), and then the two
\* results are the same type up to the names of struct fields.
C19_MergeCommutes ==
    Merged
    => /\ (merged[1] = None) <=> (merge(other, self) = None)
       /\ merged[1] # None
              => StripNames(merged[1][1]) = StripNames(merge(other, self)[1])

\* A merge whose result depends on the order of its operands.
C19_ResultsDifferInNames ==
    /\ Merged
    /\ merged[1] # None
    /\ merge(other, self) # None
    /\ merge(other, self) # merged[1]

----------------------------------------------------------------------------
\* C20: merging with Any gives the other operand; a merged type matches
\* both operands; a type merged with itself is itself; and each field of two
\* merged structs has the name of the first operand's field when that has
\* one, else the name of the second operand's field.
C20_MergeMostSpecific ==
    Merged
    => /\ self = TAny => merged[1] = Some(other)
       /\ other = TAny => merged[1] = Some(self)
       /\ self = other => merged[1] = Some(self)
       /\ merged[1] # None
              => /\ matches(merged[1][1], self)
                 /\ matches(merged[1][1], other)
       /\ (merged[1] # None /\ self.k = "Struct" /\ other.k = "Struct")
              => /\ merged[1][1].k = "Struct"
                 /\ Len(merged[1][1].fields) = Len(self.fields)
                 /\ \A i \in 1..Len(self.fields) :
                        merged[1][1].fields[i].field_name =
                            IF self.fields[i].field_name # None
                              THEN self.fields[i].field_name
                              ELSE other.fields[i].field_name

\* Two structs merged where the first field takes its name from the second
\* operand and the second field from the first operand, against another name.
C20_NamesFromBothOperands ==
    /\ Merged
    /\ merged[1] # None
    /\ self.k = "Struct"
    /\ other.k = "Struct"
    /\ Len(self.fields) = 2
    /\ self.fields[1].field_name = None
    /\ other.fields[1].field_name # None
    /\ self.fields[2].field_name # None
    /\ other.fields[2].field_name # None
    /\ other.fields[2].field_name # self.fields[2].field_name

----------------------------------------------------------------------------
\* C29: for all types a and b, a.matches(b) is true iff a.merge(b) is
\* defined, so the check of the typed wrapper (check_type, which asks
\* matches) and the fold of the array (which asks merge) accept the same
\* elements.
C29_MatchesIffMergeDefined ==
    Merged => (matched[1] <=> merged[1] # None)

\* Two structs of arrays that match and merge, and whose merge is neither
\* operand.
C29_NestedMatchAndMerge ==
    /\ Merged
    /\ self.k = "Struct"
    /\ self.fields # <<>>
    /\ self.fields[1].field_type.k = "Array"
    /\ matched[1]
    /\ merged[1] # None
    /\ merged[1][1] \notin {self, other}

----------------------------------------------------------------------------
\* The driver holds the StructSerializer of an array element begun under a
\* running type that is a struct: the normalizer is attached.
UnderShape == pc = "elem" /\ Expected.k = "Struct"

\* The member named name is taken in position when f is the next expected
\* field.
Positional(f, name) ==
    f.field_name = None \/ name = None \/ f.field_name = name

\* The expected fields that remain of fs after the members of mem from the
\* i-th on, each taken in position or not.
RECURSIVE Remaining(_, _, _)
Remaining(fs, mem, i) ==
    IF i > Len(mem) \/ fs = <<>> THEN fs
    ELSE IF Positional(Head(fs), KeyName(mem[i].key))
      THEN Remaining(Tail(fs), mem, i + 1)
    ELSE Remaining(fs, mem, i + 1)

\* The members of mem from the i-th on that are taken in position, fs being
\* the expected fields that remain.
RECURSIVE InPosition(_, _, _)
InPosition(fs, mem, i) ==
    IF i > Len(mem) \/ fs = <<>> THEN <<>>
    ELSE IF Positional(Head(fs), KeyName(mem[i].key))
      THEN <<mem[i]>> \o InPosition(Tail(fs), mem, i + 1)
    ELSE InPosition(fs, mem, i + 1)

\* The field a member emitted as it comes is recorded with.
DirectField(m) == with_type_and_name(ScalarType(m.val), KeyName(m.key))

\* The tokens a member emitted as it comes writes after the separator.
DirectTokens(m) ==
    <<ScalarText(m.val)>>
        \o (IF Named(DirectField(m))
              THEN <<SuffixOf(DirectField(m).field_name[1])>> ELSE <<>>)

\* The tokens of the members ms emitted in order, from the i-th on.
RECURSIVE JoinedMembers(_, _)
JoinedMembers(ms, i) ==
    IF i > Len(ms) THEN <<>>
    ELSE (IF i > 1 THEN <<",">> ELSE <<>>) \o DirectTokens(ms[i])
             \o JoinedMembers(ms, i + 1)

\* C22: under an expected shape with a remaining expected field, a member is
\* emitted directly and the expected cursor advances by exactly one field
\* whenever the next expected field has no name, or the member has no name,
\* or the two names are equal; in every other case the cursor does not move
\* (and nothing is emitted).
C22_PositionalAcceptance ==
    UnderShape
    => /\ ss.fields_buffer # None
       /\ ss.fields_buffer[1].expected_fields
              = Remaining(Expected.fields, cur.mem, 1)
       /\ ss.fields = [i \in 1..Len(InPosition(Expected.fields, cur.mem, 1)) |->
                          DirectField(InPosition(Expected.fields, cur.mem, 1)[i])]
       /\ ElemTokens = <<"STRUCT(">>
              \o JoinedMembers(InPosition(Expected.fields, cur.mem, 1), 1)

\* A named member taken in position because the expected field has no name.
C22_NamedUnderUnnamed ==
    /\ UnderShape
    /\ Len(Expected.fields) = 1
    /\ Expected.fields[1].field_name = None
    /\ Len(cur.mem) = 1
    /\ KeyName(cur.mem[1].key) \notin {None, Some("")}
    /\ ss.fields_buffer[1].expected_fields = <<>>
    /\ Len(ss.fields) = 1

----------------------------------------------------------------------------
\* The members of mem from the i-th on that are not taken in position, fs
\* being the expected fields that remain.
RECURSIVE OutOfPosition(_, _, _)
OutOfPosition(fs, mem, i) ==
    IF i > Len(mem) \/ fs = <<>> THEN <<>>
    ELSE IF Positional(Head(fs), KeyName(mem[i].key))
      THEN OutOfPosition(Tail(fs), mem, i + 1)
    ELSE <<mem[i]>> \o OutOfPosition(fs, mem, i + 1)

\* The buffer fb holds the members ms, each under its own field and with its
\* text rendered alone, and nothing else.
BufferHolds(fb, ms) ==
    /\ DOMAIN fb = {DirectField(ms[i]) : i \in 1..Len(ms)}
    /\ Cardinality(DOMAIN fb) = Len(ms)
    /\ \A i \in 1..Len(ms) : fb[DirectField(ms[i])] = <<ScalarText(ms[i].val)>>

\* What the members ms, the only ones emitted, have left in the sink and in
\* the struct's list of fields.
OutputOf(ms) ==
    /\ ElemTokens = <<"STRUCT(">> \o JoinedMembers(ms, 1)
    /\ Len(ss.fields) = Len(ms)
    /\ Len(ss.fields_buffer[1].expected_fields)
           = Len(Expected.fields) - Len(ms)

\* C23: a member the normalizer buffers writes nothing to the sink (no value
\* text, no comma, no AS suffix) and leaves the list of emitted fields and
\* the expected cursor as they were; the buffer gains one entry, which holds
\* the member's text rendered in isolation.
C23_BufferingLeavesOutput ==
    UnderShape
    => /\ OutputOf(InPosition(Expected.fields, cur.mem, 1))
       /\ BufferHolds(ss.fields_buffer[1].fields_buffer,
                      OutOfPosition(Expected.fields, cur.mem, 1))

\* A member buffered as the first member of its struct: the sink holds the
\* opening of the struct and nothing of the member.
C23_BufferedFirst ==
    /\ UnderShape
    /\ Len(cur.mem) = 1
    /\ DOMAIN ss.fields_buffer[1].fields_buffer # {}
    /\ ss.fields = <<>>
    /\ ElemTokens = <<"STRUCT(">>
    /\ ss.fields_buffer[1].expected_fields = Expected.fields

----------------------------------------------------------------------------
\* The piece p carries the supplied member m: its own text and its name.
Carries(p, m) == p = DirectTokens(m)

\* C26: when a struct encoded under an expected shape closes successfully,
\* every member supplied to it is in the sink with its own text: a buffered
\* member has been written at close, and no supplied member has been
\* replaced by a synthesized NULL or dropped.
C26_NoMemberLost ==
    (ClosedUnderShape /\ pc = "seq")
    => \A i \in 1..Len(LastElem.mem) :
           \E j \in 1..Len(Pieces(ElemTokens, 1)) :
               Carries(Pieces(ElemTokens, 1)[j], LastElem.mem[i])

----------------------------------------------------------------------------
\* The last element is an absent optional or a unit.
NullElement == AfterElement /\ LastElem.k \in {"none", "unit"}

\* C24: an absent optional or a unit given as an element is accepted at any
\* position and under any running element type, writes NULL and leaves the
\* running element type as it was; a closed array of such elements only is
\* an array of Any.
C24_NullElement ==
    /\ NullElement
           => /\ pc = "seq"
              /\ ElemText = "NULL"
              /\ outcome = Returned(Ok(TAny, writer))
              /\ seq.element_type = Expected
    /\ (StreamedArray /\ \A i \in 1..Len(elems) : elems[i].k \in {"none", "unit"})
           => result.type = TArray(TAny)

\* A unit accepted after a struct: the running type stays the struct's.
C24_NullAfterStruct ==
    /\ NullElement
    /\ Len(elems) = 2
    /\ LastElem = VUnit
    /\ Expected.k = "Struct"
    /\ pc = "seq"
    /\ seq.element_type = Expected

----------------------------------------------------------------------------
\* The type of a plain value: of a scalar, or of a sequence of scalars that
\* have one type.
PlainType(v) ==
    IF v.k = "seq" THEN TArray(FirstTyped(v.elems)) ELSE ScalarType(v)

\* C28: after a successful element step the running element type r' is the
\* merge of the previous running type r with itself (merge(r, r') = r'), it
\* matches the type the element returned and the type of every element
\* encoded so far, and a failed element step leaves the running type as it
\* was.
C28_RunningTypeRefines ==
    /\ (AfterElement /\ pc = "seq")
           => /\ merge(Expected, seq.element_type) = Some(seq.element_type)
              /\ outcome.ok
              /\ matches(seq.element_type, outcome.type)
              /\ \A i \in 1..Len(elems) :
                     /\ Plain(elems[i])
                            => matches(seq.element_type, PlainType(elems[i]))
                     /\ elems[i].k \in AggregateKinds
                            => seq.element_type.k = "Struct"
                     /\ elems[i].k = "seq" => seq.element_type.k = "Array"
    /\ (AfterElement /\ pc = "failed") => seq.element_type = Expected

\* A struct whose field was of type Any refined by a later element: the
\* running type has changed and is more specific.
C28_RefinedByLaterElement ==
    /\ AfterElement
    /\ pc = "seq"
    /\ Expected.k = "Struct"
    /\ seq.element_type # Expected

----------------------------------------------------------------------------
\* The value inside its present optionals and newtype structs.
RECURSIVE Unwrap(_)
Unwrap(v) ==
    IF v.k \in {"some", "newtype_struct"} THEN Unwrap(v.inner) ELSE v

\* The array v with every element taken out of its wrappers.
UnwrapElements(v) == VSeq([i \in 1..Len(v.elems) |-> Unwrap(v.elems[i])])

\* C25: an array element that is a present optional or a newtype struct
\* around a value v gives the same text and the same success or failure as
\* v itself under the same expected type; a wrapped struct element is
\* normalized as an unwrapped one is.
C25_WrappingTransparent ==
    (EncodedTop /\ cur \in WrappedArrays)
    => /\ result = Returned(to_bytes(UnwrapElements(cur)))
       /\ pc = "done" => writer = to_bytes(UnwrapElements(cur)).w

----------------------------------------------------------------------------
\* The suffixes of the members of the struct whose tokens are w, in order.
SuffixOrder(w) ==
    [j \in 1..Len(Pieces(w, 1)) |->
        Pieces(w, 1)[j][Len(Pieces(w, 1)[j])]]

\* The tokens of the first member of the struct whose tokens are w, without
\* the member's suffix.
FirstMemberValue(w) ==
    SubSeq(Pieces(w, 1)[1], 1, Len(Pieces(w, 1)[1]) - 1)

\* C27: in a successfully encoded array of structs whose field is itself a
\* struct of named members, the nested struct is written with the same
\* order of member names in every element, the order of the first element.
C27_NestedOrderNormalized ==
    (EncodedTop /\ cur \in NestedArrays /\ pc = "done")
    => \A i \in 1..Len(Pieces(writer, 1)) :
           SuffixOrder(FirstMemberValue(Pieces(writer, 1)[i]))
               = SuffixOrder(FirstMemberValue(Pieces(writer, 1)[1]))

----------------------------------------------------------------------------
\* The error of the part of a value of FailingNests that fails, and the
\* number of arrays and structs that are open around it when it fails.
NestFailure(v) ==
    IF v = VSeq(<<VSeq(<<VInt(1), VStr("boom")>>), VInt(3)>>)
      THEN [err |-> UnexpectedType(TNumber, TString), open |-> 2]
    ELSE IF v.k = "struct" THEN [err |-> UnsupportedType, open |-> 2]
    ELSE IF v = VSeq(<<VStruct(<<Member(Key("a"), VMap(<<>>))>>), VNone>>)
      THEN [err |-> EmptyStruct, open |-> 3]
    ELSE IF v = VSeq(<<VMap(<<Member(VInt(7), VInt(1))>>)>>)
      THEN [err |-> InvalidIdentifierType(TNumber), open |-> 2]
    ELSE IF v.k = "tuple" THEN [err |-> UnsupportedType, open |-> 2]
    ELSE IF v.k = "seq" THEN [err |-> UnsupportedType, open |-> 2]
    ELSE [err |-> UnsupportedType, open |-> 1]

\* C21: when the encoding of a member or element fails at any depth, every
\* enclosing step fails with the same error and so does the top-level
\* encode; no enclosing array or struct goes on to its closing bracket, and
\* to_bytes returns the error and no output.
C21_FailurePropagates ==
    /\ (EncodedTop /\ cur \in FailingNests)
           => /\ pc = "failed"
              /\ result.err = NestFailure(cur).err
              /\ Depth(writer, Len(writer)) = NestFailure(cur).open
    /\ (AfterElement /\ ~outcome.ok)
           => /\ pc = "failed"
              /\ result.err = outcome.err
    /\ pc = "failed"
           => /\ ~result.ok
              /\ result.err # NoError
              /\ to_bytes_returned([ok |-> result.ok, w |-> writer]) = None
              /\ (writer # <<>> /\ writer[1] \in Opens)
                     => Depth(writer, Len(writer)) >= 1

\* An empty map two levels down: the encode has failed with EmptyStruct and
\* the array and the two structs around it are left open.
C21_EmptyMapInside ==
    /\ EncodedTop
    /\ cur = VSeq(<<VStruct(<<Member(Key("a"), VMap(<<>>))>>), VNone>>)
    /\ pc = "failed"
    /\ result.err = EmptyStruct
    /\ writer = <<"[", "STRUCT(", "STRUCT(">>

----------------------------------------------------------------------------
\* The text of a struct aggregate of ReorderedArrays once its members are in
\* the order of the first element; a member left out is NULL.
RECURSIVE InOrder(_, _, _)
InOrder(names, mem, i) ==
    IF i > Len(names) THEN <<>>
    ELSE (IF i = 1 THEN <<>> ELSE <<",">>)
         \o (IF \E j \in DOMAIN mem : mem[j].key = Key(names[i])
               THEN LET j == CHOOSE j \in DOMAIN mem : mem[j].key = Key(names[i])
                    IN  IF mem[j].val = VNone THEN <<"NULL">>
                        ELSE <<Literal(mem[j].val)>>
               ELSE <<"NULL">>)
         \o <<" AS " \o format_as_identifier(names[i])>>
         \o InOrder(names, mem, i + 1)

\* The names of the members of the first element of the array v.
FirstNames(v) ==
    [i \in 1..Len(v.elems[1].mem) |-> v.elems[1].mem[i].key.s]

====
